---- MODULE Spec2Model ----
(***************************************************************************)
(* commit-lsp: the issue-tracker facade (IssueTracker and its ticket      *)
(* cache), the editor-server handlers that call it, and backend guessing. *)
(*                                                                         *)
(* Spec        the tracker calls of concurrent tasks (tokio tasks)         *)
(* SpecSeq     the same calls issued one at a time, each outcome observed  *)
(*             in out and the outcome before it summed up in prev          *)
(* SpecBuilder Builder::new on a remote URL (backend guessing)             *)
(* SpecConfig  User::remote_specific_configuration on a configuration      *)
(* SpecCredentials  get_credentials on a command line and its process      *)
(* SpecStartup initialize_issue_tracker from the remote URL to              *)
(*             Builder::build                                              *)
(* SpecAdapter one operation of an adapter against its backend             *)
(* SpecGit     get_repo_root on the answers of git                         *)
(* SpecDemo    the demo adapter on its fixture folder                      *)
(* SpecEllipse truncate_ellipse and truncate_ellipse_with on a string      *)
(* SpecAnalysis  analysis::State under update_text and its queries         *)
(* SpecUsername  concurrent calls of Github::get_username                  *)
(* SpecServe   the handlers of the editor server as concurrent tasks,      *)
(*             with the analysis lock and the cache lock                   *)
(***************************************************************************)
EXTENDS Naturals, Integers, Sequences, FiniteSets, TLC

\* ---------------------------------------------------------------- bounds
MaxId == 2
MaxVer == 2
MaxResp == 2
NTasks == 2

Ids == 1..MaxId
Vers == 1..MaxVer
Tasks == 1..NTasks

SeqUpTo(S, n) == UNION {[1..k -> S] : k \in 0..n}

\* ---------------------------------------------------------------- data
\* struct Ticket {id, title, text}; ver stands for the (title, text) pair
Ticket == [id : Ids, ver : Vers]

\* the shared error taxonomy surfaced by adapters
UpstreamError == {"Transport", "Authentication", "Other"}

\* what an adapter call can do: answer Ok, answer Err(e), or panic
\* (expect()/unwrap() inside the adapters)
ListOutcome ==
    [kind : {"Ok"}, ids : SeqUpTo(Ids, MaxResp)]
        \cup [kind : UpstreamError \cup {"Panic"}, ids : {<<>>}]

\* a failing detail fetch drops whatever it had collected (`?` inside the
\* adapters), so a failure carries no tickets
DetailOutcome ==
    [kind : {"Ok"}, tickets : SeqUpTo(Ticket, MaxResp)]
        \cup [kind : UpstreamError \cup {"Panic"}, tickets : {<<>>}]

VARIABLES
    ticket_cache,   \* IssueTracker::ticket_cache, a map id -> Ticket
    task,           \* per task: where its tracker call is suspended
    out,            \* SpecSeq: outcome of the call that returned last
    prev,           \* SpecSeq: summary of the call before that one
    alive,          \* FALSE once a panic has unwound the server loop
    builder,        \* issue_tracker::Builder under construction
    env,            \* build profile and environment of the process
    main,           \* initialize_issue_tracker: its locals and its result
    health,         \* HealthReport: the entries reported so far
    cred,           \* get_credentials: command line, process, result
    adapter,        \* an adapter call: the backend, the request, the result
    git,            \* get_repo_root: the git answers and the result
    text_util,      \* a call of Ellipse::truncate_ellipse_with
    lock,           \* holder of the ticket-cache and of the analysis mutex
    username,       \* Github::username, the requests made and the callers
    handler,        \* per handler of the editor server: where it stands
    analysis        \* analysis::State: lines, ty and scope

vars ==
    <<ticket_cache, task, out, prev, alive, builder, env,
      main, health, cred, adapter, git, text_util, lock, username, handler,
      analysis>>

\* the state of the text utility, the mutexes, the username cell, the
\* server's handlers and the commit message analysis
beyond == <<text_util, lock, username, handler, analysis>>

\* the state outside the tracker and its builder
elsewhere == <<main, health, cred, adapter, git, beyond>>

\* a component that is not running
Off == [pc |-> "off"]

\* ---------------------------------------------------------------- BTreeMap
EmptyMap == [k \in {} |-> 0]

\* BTreeMap::insert
\* mutant: an id already cached keeps its old ticket
Insert_if_vacant(m, k, v) ==
    [x \in DOMAIN m \cup {k} |-> IF x \in DOMAIN m THEN m[x] ELSE v]

Insert(m, k, v) == [x \in DOMAIN m \cup {k} |-> IF x = k THEN v ELSE m[x]]

\* mutant: entry().or_insert(), an id already cached keeps its old ticket
RECURSIVE Extend_keep_old(_, _)
Extend_keep_old(m, tickets) ==
    IF tickets = <<>> THEN m
    ELSE Extend_keep_old(
             IF Head(tickets).id \in DOMAIN m THEN m
             ELSE Insert(m, Head(tickets).id, Head(tickets)),
             Tail(tickets))

\* BTreeMap::extend(tickets.iter().map(|t| (t.id(), t.clone())))
RECURSIVE Extend(_, _)
Extend(m, tickets) ==
    IF tickets = <<>> THEN m
    ELSE Extend(Insert(m, Head(tickets).id, Head(tickets)), Tail(tickets))

Min(S) == CHOOSE x \in S : \A y \in S : x <= y

\* mutant: the snapshot misses the entry with the smallest id
RECURSIVE Values_skip_first(_)
Values_skip_first(m) ==
    IF DOMAIN m = {} THEN <<>>
    ELSE LET k == Min(DOMAIN m)
             rest == [x \in DOMAIN m \ {k} |-> m[x]]
         IN IF DOMAIN rest = {} THEN <<>>
            ELSE <<rest[Min(DOMAIN rest)]>> \o Values_skip_first(rest)

\* BTreeMap::values().cloned().collect(): values in ascending key order
RECURSIVE Values(_)
Values(m) ==
    IF DOMAIN m = {} THEN <<>>
    ELSE LET k == Min(DOMAIN m)
         IN <<m[k]>> \o Values([x \in DOMAIN m \ {k} |-> m[x]])

\* ---------------------------------------------------------------- tasks
Idle == [pc |-> "idle", id |-> 0, calls |-> 0]

\* what a call consumed from the adapter when it completed: the outcome
\* kind, the tickets it looked at and how many tickets the answer held
NoAnswer == [kind |-> "none", tickets |-> <<>>, len |-> 0]

\* the answer of a list or bulk detail fetch, all of which is used
whole(kind, tickets) ==
    [kind |-> kind, tickets |-> tickets, len |-> Len(tickets)]

\* tickets.first(): of the answer to a single-id fetch, get_ticket_details
\* looks at the first ticket only
first(r) ==
    [kind |-> r.kind,
     tickets |-> IF r.tickets = <<>> THEN <<>> ELSE <<Head(r.tickets)>>,
     len |-> Len(r.tickets)]

\* the answers to a single-id fetch, up to what get_ticket_details reads
SingleOutcome == {first(r) : r \in DetailOutcome}

NoCall ==
    [op |-> "none", id |-> 0, calls |-> 0, answer |-> NoAnswer,
     kind |-> "none", tickets |-> <<>>, warned |-> FALSE, reply |-> "none"]

Summary(o) ==
    [op |-> o.op, id |-> o.id, calls |-> o.calls,
     found |-> (o.kind = "Ok" /\ o.tickets # <<>>)]

\* ---------------------------------------------------------------- lsp.rs
\* Backend::initialized: the spawned task logs a warning when the bulk
\* fetch returned Err; a panic ends the spawned task before the message.
\* Backend::hover, ItemKind::Ref(id): Err is logged.
log_message(op, kind) ==
    op \in {"request_ticket_information", "get_ticket_details"}
        /\ kind \in UpstreamError

\* what the handler answers: hover answers Err with Ok(None) and
\* Ok(ticket) with Some(Hover), "#id not found!" included;
\* ticket_completion answers Ok(None) when there are no items; initialized
\* is a notification; a panicking handler answers nothing
handler_reply(op, kind, tickets) ==
    IF op = "get_ticket_details"
    THEN (IF kind = "Ok" THEN "Some"
          ELSE IF kind \in UpstreamError THEN "None" ELSE "none")
    ELSE IF op = "list_tickets"
    THEN (IF tickets = <<>> THEN "None" ELSE "Some")
    ELSE "none"

\* a panic inside a handler future unwinds Server::serve and with it main;
\* a panic inside a tokio::spawn-ed task ends that task only
survives_panic(op) == op = "request_ticket_information"

\* what a caller of the tracker observes of a completed call
Outcome(op, id, calls, answer, kind, tickets) ==
    [op |-> op, id |-> id, calls |-> calls, answer |-> answer,
     kind |-> kind, tickets |-> tickets,
     warned |-> log_message(op, kind),
     reply |-> handler_reply(op, kind, tickets)]

\* ---------------------------------------------------------------- mod.rs
\* mutant: the cache is never consulted
Get_always_miss(m, id) == <<>>

\* self.ticket_cache.lock().unwrap().get(&id)
Get(m, id) == IF id \in DOMAIN m THEN <<m[id]>> ELSE <<>>

\* mutant: the cache is cleared when the fetch fails
request_ticket_information_cache_clearing(m, r) ==
    IF r.kind = "Ok" THEN Extend(m, r.tickets) ELSE EmptyMap

\* mutant: a refresh replaces the cache by the fetched tickets
request_ticket_information_cache_replace(m, r) ==
    IF r.kind = "Ok" THEN Extend(EmptyMap, r.tickets) ELSE m

\* the merge of request_ticket_information: `?` returns before the extend
request_ticket_information_cache(m, r) ==
    IF r.kind = "Ok" THEN Extend(m, r.tickets) ELSE m

\* mutant: the assertion is compiled out
assert_eq_off(a, b) == TRUE

\* assert_eq!(ticket.id(), id)
assert_eq(a, b) == a = b

\* mutant: the fetched ticket is returned but not inserted
get_ticket_details_result_no_insert(m, id, a) ==
    IF a.kind # "Ok" THEN [kind |-> a.kind, tickets |-> <<>>, cache |-> m]
    ELSE IF a.tickets = <<>> THEN [kind |-> "Ok", tickets |-> <<>>, cache |-> m]
    ELSE LET ticket == Head(a.tickets)
         IN IF ticket.id # id
            THEN [kind |-> "Panic", tickets |-> <<>>, cache |-> m]
            ELSE [kind |-> "Ok", tickets |-> <<ticket>>, cache |-> m]

\* mutant: an empty answer is reported as an error
get_ticket_details_result_none_is_error(m, id, a) ==
    IF a.kind # "Ok" THEN [kind |-> a.kind, tickets |-> <<>>, cache |-> m]
    ELSE IF a.tickets = <<>> THEN [kind |-> "Other", tickets |-> <<>>, cache |-> m]
    ELSE LET ticket == Head(a.tickets)
         IN IF ticket.id # id
            THEN [kind |-> "Panic", tickets |-> <<>>, cache |-> m]
            ELSE [kind |-> "Ok", tickets |-> <<ticket>>,
                  cache |-> Insert(m, id, ticket)]

\* what get_ticket_details does with the answer a of the single-id fetch:
\* the outcome kind, the tickets returned and the cache it leaves
get_ticket_details_result(m, id, a) ==
    IF a.kind # "Ok" THEN [kind |-> a.kind, tickets |-> <<>>, cache |-> m]
    ELSE IF a.tickets = <<>> THEN [kind |-> "Ok", tickets |-> <<>>, cache |-> m]
    ELSE LET ticket == Head(a.tickets)
         IN IF ~assert_eq(ticket.id, id)
            THEN [kind |-> "Panic", tickets |-> <<>>, cache |-> m]
            ELSE [kind |-> "Ok", tickets |-> <<ticket>>,
                  cache |-> Insert(m, id, ticket)]

\* the call of task t returns with outcome kind `kind`
Return(t, op, kind) ==
    /\ task' = [task EXCEPT ![t] = Idle]
    /\ alive' = (kind # "Panic" \/ survives_panic(op))
    /\ UNCHANGED <<builder, env, elsewhere>>

\* request_ticket_information, line 70: call list_ticket_numbers and suspend
request_ticket_information_call(t) ==
    /\ alive
    /\ task[t] = Idle
    /\ task' = [task EXCEPT ![t] = [pc |-> "bulk_list", id |-> 0, calls |-> 1]]
    /\ UNCHANGED <<ticket_cache, alive, builder, env, elsewhere>>

\* line 70 resumes with r = Ok(ids); line 72: call get_ticket_details(&ids).
\* The ids go to the adapter and nowhere else, and an adapter may answer
\* with any tickets, so the suspended task does not have to keep them.
request_ticket_information_listed(t, r) ==
    /\ alive
    /\ task[t].pc = "bulk_list"
    /\ r.kind = "Ok"
    /\ task' = [task EXCEPT ![t] =
                   [pc |-> "bulk_detail", id |-> 0, calls |-> task[t].calls + 1]]
    /\ UNCHANGED <<ticket_cache, alive, builder, env, elsewhere>>

\* line 70 resumes with a failure r: `?` returns it
request_ticket_information_list_failed(t, r) ==
    /\ alive
    /\ task[t].pc = "bulk_list"
    /\ r.kind # "Ok"
    /\ Return(t, "request_ticket_information", r.kind)
    /\ UNCHANGED ticket_cache

request_ticket_information_list_failed_out(t, r) ==
    Outcome("request_ticket_information", 0, task[t].calls,
            whole(r.kind, <<>>), r.kind, <<>>)

\* line 72 resumes with r; lines 74-79: merge under the lock, return the
\* tickets
request_ticket_information_detailed(t, r) ==
    /\ alive
    /\ task[t].pc = "bulk_detail"
    /\ ticket_cache' = request_ticket_information_cache(ticket_cache, r)
    /\ Return(t, "request_ticket_information", r.kind)

request_ticket_information_detailed_out(t, r) ==
    Outcome("request_ticket_information", 0, task[t].calls,
            whole(r.kind, r.tickets), r.kind, r.tickets)

\* list_tickets, called by Backend::ticket_completion
list_tickets(t) ==
    /\ alive
    /\ task[t] = Idle
    /\ Return(t, "list_tickets", "Ok")
    /\ UNCHANGED ticket_cache

list_tickets_out(t) ==
    Outcome("list_tickets", 0, 0, NoAnswer, "Ok", Values(ticket_cache))

\* get_ticket_details(id), lines 92-94: cache hit
get_ticket_details_hit(t, id) ==
    /\ alive
    /\ task[t] = Idle
    /\ Get(ticket_cache, id) # <<>>
    /\ Return(t, "get_ticket_details", "Ok")
    /\ UNCHANGED ticket_cache

get_ticket_details_hit_out(t, id) ==
    Outcome("get_ticket_details", id, 0, NoAnswer, "Ok", Get(ticket_cache, id))

\* get_ticket_details(id), lines 92 and 96: miss, call
\* get_ticket_details(&[id]) and suspend
get_ticket_details_miss(t, id) ==
    /\ alive
    /\ task[t] = Idle
    /\ Get(ticket_cache, id) = <<>>
    /\ task' = [task EXCEPT ![t] = [pc |-> "lookup_fetch", id |-> id, calls |-> 1]]
    /\ UNCHANGED <<ticket_cache, alive, builder, env, elsewhere>>

\* get_ticket_details, line 96 resumes with answer a; lines 98-105
get_ticket_details_fetched(t, a) ==
    /\ alive
    /\ task[t].pc = "lookup_fetch"
    /\ LET res == get_ticket_details_result(ticket_cache, task[t].id, a)
       IN /\ ticket_cache' = res.cache
          /\ Return(t, "get_ticket_details", res.kind)

get_ticket_details_fetched_out(t, a) ==
    LET res == get_ticket_details_result(ticket_cache, task[t].id, a)
    IN Outcome("get_ticket_details", task[t].id, task[t].calls, a,
               res.kind, res.tickets)

\* ---------------------------------------------------------------- builder.rs
\* strings are sequences of characters
str_ssh_dev_azure_com == <<"s", "s", "h", ".", "d", "e", "v", ".", "a", "z", "u", "r", "e", ".", "c", "o", "m">>
str_dev_azure_com == <<"d", "e", "v", ".", "a", "z", "u", "r", "e", ".", "c", "o", "m">>
str_github_com == <<"g", "i", "t", "h", "u", "b", ".", "c", "o", "m">>
str_gitlab == <<"g", "i", "t", "l", "a", "b">>

\* the remote hosts tried: prefix + name + suffix, e.g. ssh.dev.azure.com,
\* github.com, my-gitlab.org, gitlab.example.com, bitbucket.org
HostPrefix == {<<>>, <<"s", "s", "h", ".">>, <<"m", "y", "-">>}
HostName == {<<"d", "e", "v", ".", "a", "z", "u", "r", "e">>, <<"g", "i", "t", "h", "u", "b">>, <<"g", "i", "t", "l", "a", "b">>, <<"g", "i", "t", "l", "a">>, <<"b", "i", "t", "b", "u", "c", "k", "e", "t">>}
HostSuffix == {<<>>, <<".", "c", "o", "m">>, <<".", "o", "r", "g">>, <<".", "e", "x", "a", "m", "p", "l", "e", ".", "c", "o", "m">>}
HostStrings == {p \o n \o x : p \in HostPrefix, n \in HostName, x \in HostSuffix}

\* GitUrl::host is an Option<String>
NoHost == [some |-> FALSE, s |-> <<>>]
Hosts == {[some |-> TRUE, s |-> h] : h \in HostStrings} \cup {NoHost}

\* str::contains
contains(s, pat) ==
    \E i \in 1..(Len(s) + 1) :
        /\ i + Len(pat) - 1 <= Len(s)
        /\ SubSeq(s, i, i + Len(pat) - 1) = pat

\* mutant: the GitHub rule matches by substring instead of equality
guess_from_url_github_contains(e, host) ==
    IF e.debug_assertions /\ e.demo_folder THEN "Demo"
    ELSE IF ~host.some THEN "None"
    ELSE IF host.s = str_ssh_dev_azure_com \/ host.s = str_dev_azure_com
         THEN "AzureDevOps"
    ELSE IF contains(host.s, str_github_com) THEN "Github"
    ELSE IF contains(host.s, str_gitlab) THEN "Gitlab"
    ELSE "None"

\* mutant: the environment override is not looked at
guess_from_url_no_override(e, host) ==
    IF ~host.some THEN "None"
    ELSE IF host.s = str_ssh_dev_azure_com \/ host.s = str_dev_azure_com
         THEN "AzureDevOps"
    ELSE IF host.s = str_github_com THEN "Github"
    ELSE IF contains(host.s, str_gitlab) THEN "Gitlab"
    ELSE "None"

\* IssueTrackerType::guess_from_url
guess_from_url(e, host) ==
    IF e.debug_assertions /\ e.demo_folder THEN "Demo"
    ELSE IF ~host.some THEN "None"
    ELSE IF host.s = str_ssh_dev_azure_com \/ host.s = str_dev_azure_com
         THEN "AzureDevOps"
    ELSE IF host.s = str_github_com THEN "Github"
    ELSE IF contains(host.s, str_gitlab) THEN "Gitlab"
    ELSE "None"

\* Builder::new
Builder_new ==
    /\ builder.pc = "url"
    /\ builder' = [builder EXCEPT !.pc = "new",
                      !.tracker_type = guess_from_url(env, builder.host)]
    /\ UNCHANGED <<ticket_cache, task, out, prev, alive, env, elsewhere,
                   beyond>>

\* ---------------------------------------------------------------- builder.rs, credentials
MaxOut == 3

\* the characters of a command's output: whitespace and others
Whitespace == {" ", "\n"}
Chars == Whitespace \cup {"s"}

\* ExitStatus::code(): Some(n), or None when a signal ended the process
NoCode == [some |-> FALSE, n |-> 0]
ExitCodes == {[some |-> TRUE, n |-> n] : n \in 0..1} \cup {NoCode}

\* ExitStatus::success()
success(code) == code.some /\ code.n = 0

\* what Command::output() can give: an io::Error (the program cannot be
\* run), or the exit status with the captured stdout and stderr; stdout is
\* valid UTF-8 or not
SpawnFailed ==
    [spawned |-> FALSE, code |-> NoCode, utf8 |-> TRUE,
     stdout |-> <<>>, stderr |-> <<>>]
Processes ==
    [spawned : {TRUE}, code : ExitCodes, utf8 : BOOLEAN,
     stdout : SeqUpTo(Chars, MaxOut), stderr : {<<>>, <<"e">>}]
        \cup {SpawnFailed}

\* str::trim_start and str::trim_end
RECURSIVE trim_start(_)
trim_start(s) ==
    IF s # <<>> /\ Head(s) \in Whitespace THEN trim_start(Tail(s)) ELSE s

RECURSIVE trim_end(_)
trim_end(s) ==
    IF s # <<>> /\ s[Len(s)] \in Whitespace
    THEN trim_end(SubSeq(s, 1, Len(s) - 1))
    ELSE s

\* str::trim
trim(s) == trim_end(trim_start(s))

\* Option<SecureString>: None
NoSecret == [some |-> FALSE, s |-> <<>>]
NoWarning == [some |-> FALSE, stderr |-> <<>>, code |-> NoCode]

\* get_credentials(cmdline) when Command::output() gives p: the Option
\* returned (kind "Panic" for the unwraps of lines 125 and 132) and the
\* warn! of line 129
get_credentials(cmdline, p) ==
    IF cmdline = <<>>
    THEN [kind |-> "None", secret |-> NoSecret, warning |-> NoWarning]
    ELSE IF ~p.spawned
    THEN [kind |-> "Panic", secret |-> NoSecret, warning |-> NoWarning]
    ELSE IF ~success(p.code)
    THEN [kind |-> "None", secret |-> NoSecret,
          warning |-> [some |-> TRUE, stderr |-> p.stderr, code |-> p.code]]
    ELSE IF ~p.utf8
    THEN [kind |-> "Panic", secret |-> NoSecret, warning |-> NoWarning]
    ELSE [kind |-> "Some", secret |-> [some |-> TRUE, s |-> trim(p.stdout)],
          warning |-> NoWarning]

\* the command lines tried: the empty list and a program with an argument
str_cmd == <<"c", "m", "d">>
CommandLines == {<<>>, <<str_cmd>>, <<str_cmd, <<"-", "a">>>>}

\* healthcheck.rs, ResultExt for Option<T>: Some is reported Ok, None Error
finish_check(kind) == IF kind = "Some" THEN "Ok" ELSE "Error"

\* HealthReport::report: one more entry
report(h, name, state) == Append(h, [name |-> name, state |-> state])

\* Builder::build line 98 alone:
\* get_credentials(&cmd).report(health, "Get credentials"); a panic unwinds
\* before the report
get_credentials_call ==
    /\ cred.pc = "call"
    /\ LET res == get_credentials(cred.cmdline, cred.process)
       IN /\ cred' = [cred EXCEPT !.pc = "returned", !.result = res]
          /\ health' = IF res.kind = "Panic" THEN health
                       ELSE report(health, "Get credentials",
                                   finish_check(res.kind))
    /\ UNCHANGED <<ticket_cache, task, out, prev, alive, builder, env,
                   main, adapter, git,
                   beyond>>

\* ---------------------------------------------------------------- git.rs, remote URL
str_my_gitlab_org == <<"m", "y", "-", "g", "i", "t", "l", "a", "b", ".", "o", "r", "g">>
str_bitbucket_org == <<"b", "i", "t", "b", "u", "c", "k", "e", "t", ".", "o", "r", "g">>
str_git == <<"g", "i", "t">>

\* GitUrl: the fields read (host, organization, owner) and the text
\* GitUrl::to_string gives; organization and owner are Options, TRUE when
\* present
GitUrl(host, organization, owner) ==
    [host |-> host, organization |-> organization, owner |-> owner,
     s |-> host.s
            \o (IF organization THEN <<"/", "g">> ELSE <<>>)
            \o (IF owner THEN <<"/", "o">> ELSE <<>>)
            \o <<"/", "r">>]

\* the remote URLs tried: no host (a local path), an Azure, a GitHub, a
\* GitLab and an unsupported host, with and without organization and owner
UrlHosts ==
    {NoHost} \cup {[some |-> TRUE, s |-> h] :
                      h \in {str_dev_azure_com, str_github_com,
                             str_my_gitlab_org, str_bitbucket_org}}
Urls == {GitUrl(h, g, o) : h \in UrlHosts, g \in BOOLEAN, o \in BOOLEAN}

\* no URL
NoUrl == GitUrl(NoHost, FALSE, FALSE)

\* ---------------------------------------------------------------- config.rs
MaxRemotes == 2

\* Remote::host of the configurations tried; the empty host is contained
\* in every URL
ConfigHosts == {<<>>, str_git, str_gitlab, str_github_com}

\* Option<Vec<String>>: not set, the empty list, a command line
NoCommand == [some |-> FALSE, cmdline |-> <<>>]
CredentialsCommands ==
    {NoCommand} \cup {[some |-> TRUE, cmdline |-> c] : c \in {<<>>, <<str_cmd>>}}

\* Option<IssueTrackerType>
IssueTrackerTypes == {"Demo", "Gitlab", "Github", "AzureDevOps"}

\* GitUrl::parse(text): Ok(url) for the text of a URL, Err otherwise
GitUrl_parse(text) ==
    IF \E u \in Urls : u.s = text
    THEN [ok |-> TRUE, url |-> CHOOSE u \in Urls : u.s = text]
    ELSE [ok |-> FALSE, url |-> NoUrl]

\* Option<String> issue_tracker_url: not set, the text of a GitHub URL with
\* or without organization and owner, a text GitUrl::parse rejects
NoOverride == [some |-> FALSE, s |-> <<>>]
str_not_a_url == <<":">>
UrlOverrides ==
    {NoOverride}
        \cup {[some |-> TRUE, s |-> u.s] :
                 u \in {v \in Urls : v.host.s = str_github_com}}
        \cup {[some |-> TRUE, s |-> str_not_a_url]}

\* struct Remote
Remote ==
    [host : ConfigHosts,
     credentials_command : CredentialsCommands,
     issue_tracker_type : IssueTrackerTypes \cup {"None"},
     issue_tracker_url : UrlOverrides]

\* mutant: the last matching entry is taken
RECURSIVE remote_specific_configuration_last(_, _)
remote_specific_configuration_last(remotes, url) ==
    IF remotes = <<>> THEN <<>>
    ELSE LET later == remote_specific_configuration_last(Tail(remotes), url)
         IN IF later # <<>> THEN later
            ELSE IF contains(url, Head(remotes).host) THEN <<Head(remotes)>>
            ELSE <<>>

\* User::remote_specific_configuration:
\* self.remotes.iter().find(|r| url.contains(&r.host)), an Option given as
\* a sequence of at most one entry
RECURSIVE remote_specific_configuration(_, _)
remote_specific_configuration(remotes, url) ==
    IF remotes = <<>> THEN <<>>
    ELSE IF contains(url, Head(remotes).host) THEN <<Head(remotes)>>
    ELSE remote_specific_configuration(Tail(remotes), url)

\* the entries of the configurations tried for the lookup alone: every
\* host, told apart by their issue_tracker_type
LookupRemotes ==
    {r \in Remote : /\ r.credentials_command = NoCommand
                    /\ r.issue_tracker_url = NoOverride
                    /\ r.issue_tracker_type \in {"None", "Github"}}

\* main.rs line 121 alone: the lookup applied to a configuration and a URL
User_remote_specific_configuration ==
    /\ main.pc = "config"
    /\ main' = [main EXCEPT
                   !.pc = "found",
                   !.remote_config =
                       remote_specific_configuration(main.remotes,
                                                     main.remote_url.s)]
    /\ UNCHANGED <<ticket_cache, task, out, prev, alive, builder, env,
                   health, cred, adapter, git,
                   beyond>>

\* ---------------------------------------------------------------- adapters, construction
\* TrackerConfig {url, secret}
TrackerConfig(url, secret) == [url |-> url, secret |-> secret]

\* no adapter: the None of an adapter constructor
NoAdapter == [some |-> FALSE, kind |-> "None", secret |-> NoSecret]

\* DemoAdapter::new(folder)
DemoAdapter_new == [some |-> TRUE, kind |-> "Demo", secret |-> NoSecret]

\* AzureDevops::new: pat: config.secret?, organization:
\* config.url.organization?, project: config.url.owner?
AzureDevops_new(config) ==
    IF config.secret.some /\ config.url.organization /\ config.url.owner
    THEN [some |-> TRUE, kind |-> "AzureDevOps", secret |-> config.secret]
    ELSE NoAdapter

\* Github::new: owner: config.url.owner.clone()?, token: config.secret
Github_new(config) ==
    IF config.url.owner
    THEN [some |-> TRUE, kind |-> "Github", secret |-> config.secret]
    ELSE NoAdapter

\* Gitlab::new(cfg): the adapter holds a token, a host and a project, and
\* fails to construct when one of them is missing
Gitlab_new(config) ==
    IF config.secret.some /\ config.url.host.some /\ config.url.owner
    THEN [some |-> TRUE, kind |-> "Gitlab", secret |-> config.secret]
    ELSE NoAdapter

\* a fresh IssueTracker around an adapter: ticket_cache: Default::default()
NoTracker == [some |-> FALSE, remote |-> NoAdapter, ticket_cache |-> EmptyMap]
IssueTracker_new(remote) ==
    [some |-> TRUE, remote |-> remote, ticket_cache |-> EmptyMap]

\* ---------------------------------------------------------------- main.rs, initialize_issue_tracker
\* what guess_repo_url gives: Ok(url) or Err
RepoUrlOutcome ==
    [kind : {"Ok"}, url : Urls] \cup [kind : UpstreamError, url : {NoUrl}]

\* the call of get_credentials that Builder::build made, none yet
NoCredCall ==
    [pc |-> "none", cmdline |-> <<>>, process |-> SpawnFailed,
     result |-> [kind |-> "none", secret |-> NoSecret, warning |-> NoWarning]]

\* lines 108-119 up to Builder::new: the remote URL is retrieved; without
\* it `?` returns None
initialize_issue_tracker_url(r) ==
    /\ main.pc = "start"
    /\ IF r.kind = "Ok"
       THEN /\ health' = report(health, "retrieve repo url", "Ok")
            /\ main' = [main EXCEPT !.pc = "url", !.remote_url = r.url]
            /\ builder' = [builder EXCEPT !.pc = "url", !.host = r.url.host,
                              !.url = r.url]
       ELSE /\ health' = report(health, "retrieve repo url", "Error")
            /\ main' = [main EXCEPT !.pc = "done"]
            /\ UNCHANGED builder
    /\ UNCHANGED <<ticket_cache, task, out, prev, alive, env, cred, adapter,
                   git,
                   beyond>>

\* mutant: the configured kind is used only when nothing was guessed
resolve_tracker_type_guess_first(guessed, remote_config) ==
    IF guessed # "None" THEN guessed
    ELSE IF remote_config # <<>> THEN remote_config[1].issue_tracker_type
    ELSE guessed

\* lines 131-143: builder.tracker_type after the per-remote configuration
\* has been looked at
resolve_tracker_type(guessed, remote_config) ==
    IF remote_config # <<>> /\ remote_config[1].issue_tracker_type # "None"
    THEN remote_config[1].issue_tracker_type
    ELSE guessed

\* lines 121-149: the health entries reported
resolve_tracker_type_health(h, guessed, remote_config) ==
    LET h1 == report(h, "Check for remote specific user config",
                     IF remote_config # <<>> THEN "Ok" ELSE "Info")
        configured ==
            remote_config # <<>>
                /\ remote_config[1].issue_tracker_type # "None"
        h2 == IF remote_config = <<>> THEN h1
              ELSE report(h1, "Check for configured issue tracker",
                          IF configured THEN "Ok" ELSE "Info")
    IN IF configured THEN h2
       ELSE report(h2, "Guess used issue tracker",
                   IF guessed # "None" THEN "Ok" ELSE "Error")

\* the configurations tried: every list of hosts, the entries sharing the
\* other settings, which are read from the entry found only
Users(settings) ==
    {[i \in DOMAIN hosts |-> [settings EXCEPT !.host = hosts[i]]] :
        hosts \in SeqUpTo(ConfigHosts, MaxRemotes)}

\* lines 121-149: look the per-remote configuration up and settle the kind
initialize_issue_tracker_kind(remotes) ==
    /\ main.pc = "url"
    /\ builder.pc = "new"
    /\ LET remote_config ==
               remote_specific_configuration(remotes, main.remote_url.s)
       IN /\ main' = [main EXCEPT !.pc = "kind",
                         !.remote_config = remote_config]
          /\ builder' = [builder EXCEPT !.tracker_type =
                            resolve_tracker_type(builder.tracker_type,
                                                 remote_config)]
          /\ health' = resolve_tracker_type_health(
                           health, builder.tracker_type, remote_config)
    /\ UNCHANGED <<ticket_cache, task, out, prev, alive, env, cred, adapter,
                   git,
                   beyond>>

\* Builder::add_remote_config: the builder and the health report it
\* leaves, and whether the expect of line 89 panics
add_remote_config(b, h, config) ==
    LET parsed == GitUrl_parse(config.issue_tracker_url.s)
    IN IF ~config.issue_tracker_url.some
       THEN [panic |-> FALSE, health |-> h,
             builder |-> [b EXCEPT
                 !.credential_command = config.credentials_command]]
       ELSE [panic |-> ~parsed.ok,
             health |-> report(h, "Apply url overwrite",
                               IF parsed.ok THEN "Ok" ELSE "Error"),
             builder |-> [b EXCEPT
                 !.credential_command = config.credentials_command,
                 !.url = IF parsed.ok THEN parsed.url ELSE b.url]]

\* lines 151-153: the per-remote configuration, if any, is handed to the
\* builder
initialize_issue_tracker_config ==
    /\ main.pc = "kind"
    /\ IF main.remote_config = <<>>
       THEN /\ main' = [main EXCEPT !.pc = "configured"]
            /\ UNCHANGED <<builder, health>>
       ELSE LET res == add_remote_config(builder, health,
                                         main.remote_config[1])
            IN /\ builder' = res.builder
               /\ health' = res.health
               /\ main' = [main EXCEPT !.pc =
                              IF res.panic THEN "panicked" ELSE "configured",
                              !.panic_at = IF res.panic
                                           THEN "add_remote_config"
                                           ELSE "none"]
    /\ UNCHANGED <<ticket_cache, task, out, prev, alive, env, cred, adapter,
                   git,
                   beyond>>

\* the adapter of Builder::build, lines 108-115; "Panic" for the unwrap of
\* line 110
build_adapter(tracker_type, e, cfg) ==
    IF tracker_type = "None" THEN [panic |-> FALSE, adapter |-> NoAdapter]
    ELSE IF tracker_type = "Demo"
    THEN [panic |-> ~e.demo_folder,
          adapter |-> IF e.demo_folder THEN DemoAdapter_new ELSE NoAdapter]
    ELSE IF tracker_type = "Gitlab"
    THEN [panic |-> FALSE, adapter |-> Gitlab_new(cfg)]
    ELSE IF tracker_type = "Github"
    THEN [panic |-> FALSE, adapter |-> Github_new(cfg)]
    ELSE [panic |-> FALSE, adapter |-> AzureDevops_new(cfg)]

\* the processes a credential command of a configuration may turn out to
\* be: it cannot be run, it fails, it prints no UTF-8, it prints nothing,
\* it prints a secret and a newline
BuildProcesses ==
    {p \in Processes : /\ p.stderr = <<>>
                       /\ (p.spawned => p.code.some)
                       /\ p.stdout \in {<<>>, <<"s", "\n">>}}

\* line 155, Builder::build, when the credential command, if one is run,
\* turns out as p
Builder_build(p) ==
    /\ main.pc = "configured"
    /\ LET cmd == builder.credential_command
           h1 == report(health, "Check for credentials command",
                        IF cmd.some THEN "Ok" ELSE "Info")
           res == IF cmd.some THEN get_credentials(cmd.cmdline, p)
                  ELSE [kind |-> "None", secret |-> NoSecret,
                        warning |-> NoWarning]
           h2 == IF cmd.some
                 THEN report(h1, "Get credentials", finish_check(res.kind))
                 ELSE h1
           made == build_adapter(builder.tracker_type, env,
                                 TrackerConfig(builder.url, res.secret))
       IN /\ cred' = IF cmd.some
                     THEN [pc |-> "returned", cmdline |-> cmd.cmdline,
                           process |-> p, result |-> res]
                     ELSE cred
          /\ IF res.kind = "Panic"
             THEN /\ health' = h1
                  /\ main' = [main EXCEPT !.pc = "panicked",
                                 !.panic_at = "build"]
                  /\ UNCHANGED builder
             ELSE /\ health' = h2
                  /\ builder' = [builder EXCEPT !.pc = "built"]
                  /\ main' =
                        IF made.panic
                        THEN [main EXCEPT !.pc = "panicked",
                                 !.panic_at = "build"]
                        ELSE [main EXCEPT !.pc = "done",
                                 !.tracker =
                                     IF made.adapter.some
                                     THEN IssueTracker_new(made.adapter)
                                     ELSE NoTracker]
    /\ UNCHANGED <<ticket_cache, task, out, prev, alive, env, adapter, git,
                   beyond>>

\* ---------------------------------------------------------------- adapters, operations
\* the tickets the remote service (or the demo folder) holds: per id the
\* version of its ticket, Missing for an id without a ticket
Missing == 0
Upstreams == [Ids -> Vers \cup {Missing}]

\* the ticket the service holds for an id
TicketOf(up, id) == [id |-> id, ver |-> up[id]]

\* the ids, in the order asked, that have a ticket
RECURSIVE Matching(_, _)
Matching(ids, up) ==
    IF ids = <<>> THEN <<>>
    ELSE IF up[Head(ids)] = Missing THEN Matching(Tail(ids), up)
    ELSE <<Head(ids)>> \o Matching(Tail(ids), up)

\* the ids that have a ticket, ascending
RECURSIVE Existing(_, _)
Existing(up, S) ==
    IF S = {} THEN <<>>
    ELSE LET k == Min(S)
         IN (IF up[k] = Missing THEN <<>> ELSE <<k>>) \o Existing(up, S \ {k})

\* their tickets
TicketsOf(ids, up) == [i \in DOMAIN ids |-> TicketOf(up, ids[i])]

\* what is wrong with the backend during a call: nothing; it cannot be
\* reached; it rejects the credential; it answers with something that is
\* no JSON; with JSON of another shape; with an item that lacks a field
Faults ==
    {"none", "unreachable", "unauthorized", "not_json", "unexpected_shape",
     "bad_item"}

\* what send().await gives: a reqwest::Error, or a response with a status
\* and a body ("ok": the payload asked for, "error": a JSON error object,
\* "garbage": no JSON, "bad_item": the payload with an ill-formed item)
NoResponse == [sent |-> FALSE, status |-> "none", body |-> "none"]
Http(status, body) == [sent |-> TRUE, status |-> status, body |-> body]

\* StatusCode::is_success
is_success(status) == status = "OK"

\* the answer of api.github.com to a request about something that exists
\* or not
github_service(fault, exists) ==
    IF fault = "unreachable" THEN NoResponse
    ELSE IF fault = "unauthorized" THEN Http("UNAUTHORIZED", "error")
    ELSE IF fault = "not_json" THEN Http("OK", "garbage")
    ELSE IF fault = "unexpected_shape" THEN Http("OK", "error")
    ELSE IF fault = "bad_item" THEN Http("OK", "bad_item")
    ELSE IF exists THEN Http("OK", "ok")
    ELSE Http("NOT_FOUND", "error")

\* the answer of dev.azure.com; the batch request names no error policy, so
\* the service's own decides whether an id without a work item fails the
\* batch or is left out; a rejected credential is answered without JSON
azure_service(fault, exists) ==
    IF fault = "unreachable" THEN NoResponse
    ELSE IF fault = "unauthorized" THEN Http("UNAUTHORIZED", "garbage")
    ELSE IF fault = "not_json" THEN Http("OK", "garbage")
    ELSE IF fault = "unexpected_shape" THEN Http("OK", "error")
    ELSE IF fault = "bad_item" THEN Http("OK", "bad_item")
    ELSE IF exists THEN Http("OK", "ok")
    ELSE Http("NOT_FOUND", "error")

\* Result<Vec<u64>, UpstreamError> and Result<Vec<Ticket>, UpstreamError>,
\* and a panic
Ok_ids(ids) == [kind |-> "Ok", ids |-> ids, tickets |-> <<>>]
Ok_tickets(tickets) == [kind |-> "Ok", ids |-> <<>>, tickets |-> tickets]
Err(e) == [kind |-> e, ids |-> <<>>, tickets |-> <<>>]
NoResult == [kind |-> "none", ids |-> <<>>, tickets |-> <<>>]

\* impl From<reqwest::Error> for UpstreamError, applied by `?`
From_reqwest_Error == "Transport"

\* Github::get_username (first call of the adapter)
Github_get_username(c) ==
    IF ~c.token THEN "Ok"
    ELSE LET response == github_service(c.fault, TRUE)
         IN IF ~response.sent THEN From_reqwest_Error
            ELSE IF response.body # "ok" THEN From_reqwest_Error
            ELSE "Ok"

\* Github::list_ticket_numbers
Github_list_ticket_numbers(c) ==
    LET assignee == Github_get_username(c)
        result == github_service(c.fault, TRUE)
    IN IF assignee # "Ok" THEN Err(assignee)
       ELSE IF ~result.sent THEN Err(From_reqwest_Error)
       ELSE IF ~is_success(result.status) THEN Err("Other")
       ELSE IF result.body # "ok" THEN Err(From_reqwest_Error)
       ELSE Ok_ids(Existing(c.up, Ids))

\* Github::get_ticket_details on the ids left: one request per id, `?` on
\* the send and on the deserialisation to ListIssuesResponse
RECURSIVE Github_get_ticket_details(_, _)
Github_get_ticket_details(c, ids) ==
    IF ids = <<>> THEN Ok_tickets(<<>>)
    ELSE LET result == github_service(c.fault, c.up[Head(ids)] # Missing)
             rest == Github_get_ticket_details(c, Tail(ids))
         IN IF ~result.sent THEN Err(From_reqwest_Error)
            ELSE IF result.body # "ok" THEN Err(From_reqwest_Error)
            ELSE IF rest.kind # "Ok" THEN rest
            ELSE Ok_tickets(<<TicketOf(c.up, Head(ids))>> \o rest.tickets)

\* AzureDevops::list_ticket_numbers
AzureDevops_list_ticket_numbers(c) ==
    LET response == azure_service(c.fault, TRUE)
    IN IF ~response.sent THEN Err(From_reqwest_Error)
       ELSE IF response.status = "UNAUTHORIZED" THEN Err("Authentication")
       ELSE IF response.body = "garbage" THEN Err(From_reqwest_Error)
       ELSE IF response.body = "error" THEN Err("Other")
       ELSE IF response.body = "bad_item" THEN Err("Panic")
       ELSE Ok_ids(Existing(c.up, Ids))

\* AzureDevops::get_ticket_details: one batch request for all ids
AzureDevops_get_ticket_details(c) ==
    LET complete == \A i \in DOMAIN c.ids : c.up[c.ids[i]] # Missing
        result == azure_service(c.fault, complete \/ c.policy = "Omit")
    IN IF ~result.sent THEN Err(From_reqwest_Error)
       ELSE IF result.body = "garbage" THEN Err(From_reqwest_Error)
       ELSE IF result.body = "error" THEN Err("Other")
       ELSE IF result.body = "bad_item" THEN Err("Panic")
       ELSE Ok_tickets(TicketsOf(Matching(c.ids, c.up), c.up))

\* Gitlab::list_ticket_numbers: client() and the query are unwrapped with
\* expect
Gitlab_list_ticket_numbers(c) ==
    IF c.fault # "none" THEN Err("Panic")
    ELSE Ok_ids(Existing(c.up, Ids))

\* Gitlab::get_ticket_details: the project's issues filtered by iid
Gitlab_get_ticket_details(c) ==
    IF c.fault # "none" THEN Err("Panic")
    ELSE Ok_tickets(TicketsOf(
             Existing(c.up, {c.ids[i] : i \in DOMAIN c.ids}), c.up))

\* DemoAdapter::list_ticket_numbers: read_dir().expect("To open dir")
DemoAdapter_list_ticket_numbers(c) ==
    IF c.fault = "unreachable" THEN Err("Panic")
    ELSE Ok_ids(Existing(c.up, Ids))

\* DemoAdapter::load_ticket on each id, None for a file that cannot be
\* opened or read or that has no line
DemoAdapter_get_ticket_details(c) ==
    IF c.fault # "none" THEN Ok_tickets(<<>>)
    ELSE Ok_tickets(TicketsOf(Matching(c.ids, c.up), c.up))

\* the calls of an adapter operation; a list call takes no ids, only the
\* GitHub adapter may lack a token, only the Azure batch has an error policy
Calls ==
    {c \in [pc : {"called"}, kind : IssueTrackerTypes,
            op : {"list", "details"}, ids : SeqUpTo(Ids, MaxResp),
            up : Upstreams, fault : Faults, token : BOOLEAN,
            policy : {"Fail", "Omit"}, result : {NoResult}] :
        /\ (c.op = "list" => c.ids = <<>>)
        /\ (c.kind # "Github" => c.token)
        /\ (c.kind # "AzureDevOps" \/ c.op # "details" => c.policy = "Omit")}

\* one adapter operation runs
Adapter_return(kind, op, result) ==
    /\ adapter.pc = "called"
    /\ adapter.kind = kind
    /\ adapter.op = op
    /\ adapter' = [adapter EXCEPT !.pc = "returned", !.result = result]
    /\ UNCHANGED <<ticket_cache, task, out, prev, alive, builder, env, main,
                   health, cred, git,
                   beyond>>

\* ---------------------------------------------------------------- git.rs, get_repo_root
MaxWorktrees == 2

\* paths, as sequences of components; "/" first makes a path absolute
str_root == <<"/", "a">>
WorktreePaths == {<<"/", "a">>, <<"/", "b">>, <<"/", "c">>}

\* what `git rev-parse --git-dir` and `--git-common-dir` print: a relative
\* path, the main metadata directory, a linked worktree's, each with the
\* newline that ends the output
GitDirOutputs ==
    {<<".git", "\n">>,
     <<"/", "a", ".git", "\n">>,
     <<"/", "a", ".git", "worktrees", "b", "\n">>}

\* Path::join: an absolute second path replaces the first
join(p, q) == IF q # <<>> /\ Head(q) = "/" THEN q ELSE p \o q

\* impl From<std::io::Error> for UpstreamError, applied by `?` to output()
From_io_Error == "Transport"

\* a git query from the current directory: it exits non-zero, or prints out
QueryFailed == [ok |-> FALSE, out |-> <<>>]
Queries == {QueryFailed} \cup [ok : {TRUE}, out : GitDirOutputs]

\* a listed worktree and what `git rev-parse --git-dir` does in it: the
\* directory is gone and the command cannot be started there ("stale"), it
\* prints bytes that are no UTF-8, or it prints out
Candidates ==
    [path : WorktreePaths, probe : {"stale", "non_utf8"}, out : {<<>>}]
        \cup [path : WorktreePaths, probe : {"ok"}, out : GitDirOutputs]

\* `git worktree list --porcelain` lists a worktree once
Listings ==
    {l \in SeqUpTo(Candidates, MaxWorktrees) :
        \A i, j \in DOMAIN l : i # j => l[i].path # l[j].path}

\* Result<PathBuf, UpstreamError>, and a panic
Ok_path(path) == [kind |-> "Ok", path |-> path]
Err_path(e) == [kind |-> e, path |-> <<>>]

\* the loop of lines 64-84 and line 86 on the worktrees left
RECURSIVE scan(_, _, _, _)
scan(worktrees, target_git_dir, base_git_dir, base_worktree) ==
    IF worktrees = <<>> THEN base_worktree
    ELSE LET c == Head(worktrees)
             git_dir == join(c.path, trim_end(c.out))
             rest(b) == scan(Tail(worktrees), target_git_dir, base_git_dir, b)
         IN IF c.probe = "stale" THEN Err_path(From_io_Error)
            ELSE IF c.probe = "non_utf8" THEN rest(base_worktree)
            ELSE IF git_dir = base_git_dir THEN rest(Ok_path(c.path))
            ELSE IF git_dir = target_git_dir THEN Ok_path(c.path)
            ELSE rest(base_worktree)

\* get_repo_root on the answers of git
get_repo_root(g) ==
    IF g.toplevel = "ok" THEN Ok_path(str_root)
    ELSE IF g.toplevel = "non_utf8" THEN Err_path("Panic")
    ELSE IF ~g.target.ok THEN Err_path("Other")
    ELSE IF ~g.base.ok THEN Err_path("Other")
    ELSE IF ~g.listed THEN Err_path("Other")
    ELSE scan(g.worktrees, trim_end(g.target.out), trim_end(g.base.out),
              Err_path("Other"))

\* the answers git can give around one call; what is not asked is left out
Repositories ==
    {g \in [pc : {"call"}, toplevel : {"ok", "non_utf8", "failed"},
            target : Queries, base : Queries, listed : BOOLEAN,
            worktrees : Listings, result : {Err_path("none")}] :
        /\ (g.toplevel # "failed" => g.target = QueryFailed)
        /\ (~g.target.ok => g.base = QueryFailed)
        /\ (~g.base.ok => ~g.listed)
        /\ (~g.listed => g.worktrees = <<>>)}

\* get_repo_root is called
get_repo_root_call ==
    /\ git.pc = "call"
    /\ git' = [git EXCEPT !.pc = "returned", !.result = get_repo_root(git)]
    /\ UNCHANGED <<ticket_cache, task, out, prev, alive, builder, env, main,
                   health, cred, adapter,
                   beyond>>

\* ---------------------------------------------------------------- demo.rs
MaxFile == 4
MaxEntries == 2

\* the characters of a fixture file, and its contents
FileChars == {"a", "\n"}
Contents == SeqUpTo(FileChars, MaxFile)

\* a fixture file: there is none, it is no UTF-8, or it holds a text
NoFile == [state |-> "missing", text |-> <<>>]
BadFile == [state |-> "non_utf8", text |-> <<>>]
FixtureFiles == {NoFile, BadFile} \cup [state : {"text"}, text : Contents]

\* a fixture of title "a" and body "a", as the files beside the one under
\* test
str_fixture == <<"a", "\n", "\n", "a">>
PlainFiles == {NoFile, [state |-> "text", text |-> str_fixture]}

\* str::lines(): the text is cut at each "\n"; what follows the last "\n"
\* is a line unless it is empty
RECURSIVE lines_from(_, _)
lines_from(s, line) ==
    IF s = <<>> THEN (IF line = <<>> THEN <<>> ELSE <<line>>)
    ELSE IF Head(s) = "\n" THEN <<line>> \o lines_from(Tail(s), <<>>)
    ELSE lines_from(Tail(s), Append(line, Head(s)))

lines(s) == lines_from(s, <<>>)

\* [&str]::join("\n")
RECURSIVE join_newline(_)
join_newline(ls) ==
    IF ls = <<>> THEN <<>>
    ELSE IF Len(ls) = 1 THEN ls[1]
    ELSE ls[1] \o <<"\n">> \o join_newline(Tail(ls))

\* Iterator::skip(n) after the items taken so far
skip(ls, n) == SubSeq(ls, n + 1, Len(ls))

\* a ticket with its title and text, and Option<Ticket>
DemoTicket(id, title, text) == [id |-> id, title |-> title, text |-> text]
NoDemoTicket == [some |-> FALSE, ticket |-> DemoTicket(0, <<>>, <<>>)]
SomeDemoTicket(t) == [some |-> TRUE, ticket |-> t]

\* mutant: the line after the title is part of the text
load_ticket_keep_separator(file, id) ==
    IF file.state # "text" THEN NoDemoTicket
    ELSE LET ls == lines(file.text)
         IN IF ls = <<>> THEN NoDemoTicket
            ELSE SomeDemoTicket(
                     DemoTicket(id, ls[1], join_newline(skip(Tail(ls), 0))))

\* DemoAdapter::load_ticket on the file named after the id
load_ticket(file, id) ==
    IF file.state # "text" THEN NoDemoTicket
    ELSE LET ls == lines(file.text)
         IN IF ls = <<>> THEN NoDemoTicket
            ELSE SomeDemoTicket(
                     DemoTicket(id, ls[1], join_newline(skip(Tail(ls), 1))))

\* DemoAdapter::get_ticket_details: flat_map of load_ticket over the ids
RECURSIVE Demo_get_ticket_details(_, _)
Demo_get_ticket_details(files, ids) ==
    IF ids = <<>> THEN <<>>
    ELSE LET t == load_ticket(files[Head(ids)], Head(ids))
         IN (IF t.some THEN <<t.ticket>> ELSE <<>>)
                \o Demo_get_ticket_details(files, Tail(ids))

\* the characters of a file name, and the names tried
NameChars == {"0", "1", "2", "+", "x"}
Digits == {"0", "1", "2"}
FileNames == SeqUpTo(NameChars, 2)

\* char::to_digit(10) for the digits tried
to_digit(c) == IF c = "0" THEN 0 ELSE IF c = "1" THEN 1 ELSE 2

\* the value of a sequence of digits
RECURSIVE digits_value(_, _)
digits_value(s, acc) ==
    IF s = <<>> THEN acc
    ELSE digits_value(Tail(s), acc * 10 + to_digit(Head(s)))

\* Option<u64>
NoU64 == [some |-> FALSE, n |-> 0]

\* str::parse::<u64>().ok(): digits after an optional "+"
parse_u64(name) ==
    LET digits == IF name # <<>> /\ Head(name) = "+" THEN Tail(name) ELSE name
    IN IF digits = <<>> THEN NoU64
       ELSE IF \E i \in DOMAIN digits : digits[i] \notin Digits THEN NoU64
       ELSE [some |-> TRUE, n |-> digits_value(digits, 0)]

\* an entry of read_dir(): an io::Error, a name that is no UTF-8, a name
DirEntries ==
    [kind : {"error", "non_utf8"}, name : {<<>>}]
        \cup [kind : {"name"}, name : FileNames]

\* DemoAdapter::list_ticket_numbers on the entries read_dir() gives
RECURSIVE Demo_list_ticket_numbers(_)
Demo_list_ticket_numbers(entries) ==
    IF entries = <<>> THEN <<>>
    ELSE LET e == Head(entries)
             i == IF e.kind = "name" THEN parse_u64(e.name) ELSE NoU64
         IN (IF i.some THEN <<i.n>> ELSE <<>>)
                \o Demo_list_ticket_numbers(Tail(entries))

\* the calls of the demo adapter: a detail fetch over fixture files of
\* which the first id's is any file, or a listing of a directory
DemoCalls ==
    {c \in [pc : {"called"}, op : {"details"}, ids : SeqUpTo(Ids, MaxResp),
            files : [Ids -> FixtureFiles], entries : {<<>>},
            tickets : {<<>>}, numbers : {<<>>}] :
        \A i \in Ids \ {1} : c.files[i] \in PlainFiles}
    \cup [pc : {"called"}, op : {"list"}, ids : {<<>>},
          files : {[i \in Ids |-> NoFile]},
          entries : SeqUpTo(DirEntries, MaxEntries),
          tickets : {<<>>}, numbers : {<<>>}]

\* DemoAdapter::get_ticket_details is called
DemoAdapter_details ==
    /\ adapter.pc = "called"
    /\ adapter.op = "details"
    /\ adapter' = [adapter EXCEPT !.pc = "returned",
                      !.tickets = Demo_get_ticket_details(adapter.files,
                                                          adapter.ids)]
    /\ UNCHANGED <<ticket_cache, task, out, prev, alive, builder, env, main,
                   health, cred, git,
                   beyond>>

\* DemoAdapter::list_ticket_numbers is called on a folder that can be read
DemoAdapter_list ==
    /\ adapter.pc = "called"
    /\ adapter.op = "list"
    /\ adapter' = [adapter EXCEPT !.pc = "returned",
                      !.numbers = Demo_list_ticket_numbers(adapter.entries)]
    /\ UNCHANGED <<ticket_cache, task, out, prev, alive, builder, env, main,
                   health, cred, git,
                   beyond>>

\* ---------------------------------------------------------------- text_util.rs
MaxStr == 3

\* the strings truncated, as sequences of chars, and the ellipses given
Strings == SeqUpTo({"a", "b"}, MaxStr)
str_dots == <<".", ".", ".">>
Ellipses == {str_dots, <<"-", "-", "-">>, <<>>}

\* Iterator::take(n)
take(s, n) == SubSeq(s, 1, IF n < Len(s) THEN n ELSE Len(s))

\* mutant: truncating to no character still appends the ellipse
truncate_ellipse_with_always(s, len, ellipse) ==
    IF Len(s) <= len THEN s
    ELSE take(s, len) \o ellipse

\* <&str as Ellipse>::truncate_ellipse_with
truncate_ellipse_with(s, len, ellipse) ==
    IF Len(s) <= len THEN s
    ELSE IF len = 0 THEN <<>>
    ELSE take(s, len) \o ellipse

\* Ellipse::truncate_ellipse
truncate_ellipse(s, len) == truncate_ellipse_with(s, len, str_dots)

\* the calls: truncate_ellipse takes no ellipse
EllipseCalls ==
    [pc : {"call"}, method : {"truncate_ellipse_with"}, s : Strings,
     len : 0..(MaxStr + 1), ellipse : Ellipses, result : {<<>>}]
    \cup [pc : {"call"}, method : {"truncate_ellipse"}, s : Strings,
          len : 0..(MaxStr + 1), ellipse : {str_dots}, result : {<<>>}]

\* s.truncate_ellipse_with(len, ellipse) is called
Ellipse_truncate_ellipse_with ==
    /\ text_util.pc = "call"
    /\ text_util.method = "truncate_ellipse_with"
    /\ text_util' = [text_util EXCEPT !.pc = "returned",
                        !.result = truncate_ellipse_with(
                            text_util.s, text_util.len, text_util.ellipse)]
    /\ UNCHANGED <<ticket_cache, task, out, prev, alive, builder, env, main,
                   health, cred, adapter, git, lock, username, handler,
                   analysis>>

\* s.truncate_ellipse(len) is called
Ellipse_truncate_ellipse ==
    /\ text_util.pc = "call"
    /\ text_util.method = "truncate_ellipse"
    /\ text_util' = [text_util EXCEPT !.pc = "returned",
                        !.result = truncate_ellipse(text_util.s,
                                                    text_util.len)]
    /\ UNCHANGED <<ticket_cache, task, out, prev, alive, builder, env, main,
                   health, cred, adapter, git, lock, username, handler,
                   analysis>>

\* ---------------------------------------------------------------- analysis.rs
MaxText == 3

\* the characters of a commit text (all of one byte, so that byte offsets
\* are character offsets), and the texts tried: an opening followed by
\* every string of up to MaxText characters
TextChars == {"a", ":", " ", "\n"}
Openings == {<<>>, <<"a", "(", "a", ")">>, <<"a", "!">>}
Texts == {o \o s : o \in Openings, s \in SeqUpTo(TextChars, MaxText)}

\* lsp_types::Position and Range, lines and characters counted from 0
Position(line, character) == [line |-> line, character |-> character]
Range_new(start, end) == [start |-> start, end |-> end]

\* Option<Range>
NoRange == [some |-> FALSE, range |-> Range_new(Position(0, 0), Position(0, 0))]
SomeRange(r) == [some |-> TRUE, range |-> r]

\* std::ops::Range<usize>, and a &str slice of a line as the offsets it
\* covers
Slice(start, end) == [start |-> start, end |-> end]
NoSlice == [some |-> FALSE, start |-> 0, end |-> 0]
SomeSlice(start, end) == [some |-> TRUE, start |-> start, end |-> end]

\* the result of a query: nothing asked, None, Some(what), or a panic
NoInfo == [kind |-> "none", what |-> <<>>]
Info(kind, what) == [kind |-> kind, what |-> what]

\* State::new
State_new ==
    [pc |-> "on", lines |-> <<>>, ty |-> NoRange, scope |-> NoRange,
     info |-> NoInfo]

\* State::partial_line
partial_line(line, range) ==
    Range_new(Position(line, range.start), Position(line, range.end))

\* [a-z] and char::is_alphanumeric over the characters tried
is_lower(c) == c = "a"
is_alphanumeric(c) == c = "a"

\* [a-z]+ from character i (counted from 1): the character after the run
RECURSIVE run_end(_, _)
run_end(s, i) ==
    IF i <= Len(s) /\ is_lower(s[i]) THEN run_end(s, i + 1) ELSE i

\* (?:\((?P<scope>[^)]+)\))? at character j: whether the header can go on,
\* the scope captured and the character after the group
scope_at(s, j) ==
    IF j <= Len(s) /\ s[j] = "("
    THEN LET closes == {k \in (j + 1)..Len(s) : s[k] = ")"}
         IN IF closes = {} \/ Min(closes) = j + 1
            THEN [ok |-> FALSE, scope |-> NoSlice, next |-> j]
            ELSE [ok |-> TRUE, scope |-> SomeSlice(j, Min(closes) - 1),
                  next |-> Min(closes) + 1]
    ELSE [ok |-> TRUE, scope |-> NoSlice, next |-> j]

\* Option<(&str, Option<&str>, bool)>
NoHeader == [some |-> FALSE, ty |-> Slice(0, 0), scope |-> NoSlice,
             breaking |-> FALSE]

\* the header regex tried at character i (counted from 1); the subject .*$
\* matches whatever is left of the line
header_at(s, i) ==
    IF ~(i <= Len(s) /\ is_lower(s[i])) THEN NoHeader
    ELSE LET j == run_end(s, i)
             sc == scope_at(s, j)
             breaking == sc.next <= Len(s) /\ s[sc.next] = "!"
             k == IF breaking THEN sc.next + 1 ELSE sc.next
         IN IF sc.ok /\ k + 1 <= Len(s) /\ s[k] = ":" /\ s[k + 1] = " "
            THEN [some |-> TRUE, ty |-> Slice(i - 1, j - 1),
                  scope |-> sc.scope, breaking |-> breaking]
            ELSE NoHeader

\* parse_header: the leftmost match of the (unanchored) header regex
parse_header(first_line) ==
    LET starts == {i \in 1..Len(first_line) : header_at(first_line, i).some}
    IN IF starts = {} THEN NoHeader ELSE header_at(first_line, Min(starts))

\* substr_offset: the slices of parse_header point into the header, so
\* both assertions hold
substr_offset(container, contained) ==
    Slice(contained.start, contained.end)

\* State::update_text
update_text(state, new_text) ==
    LET ls == lines(new_text)
        header == ls[1]
        parsed == parse_header(header)
    IN IF ls = <<>> THEN [state EXCEPT !.lines = ls]
       ELSE IF ~parsed.some THEN [state EXCEPT !.lines = ls]
       ELSE [state EXCEPT
                !.lines = ls,
                !.ty = SomeRange(partial_line(0, substr_offset(header, parsed.ty))),
                !.scope = IF parsed.scope.some
                          THEN SomeRange(partial_line(
                                   0, substr_offset(header, parsed.scope)))
                          ELSE NoRange]

\* the bytes of the lines before the last, one more for each newline
RECURSIVE preceding(_)
preceding(ls) ==
    IF Len(ls) <= 1 THEN 0 ELSE Len(ls[1]) + 1 + preceding(Tail(ls))

\* State::get_text: slicing the lines or the joined text out of bounds
\* panics
get_text(state, range) ==
    IF range.start.line > range.end.line + 1
          \/ range.end.line + 1 > Len(state.lines)
    THEN Info("Panic", <<>>)
    ELSE LET ls == SubSeq(state.lines, range.start.line + 1, range.end.line + 1)
             offset == preceding(ls)
             text == join_newline(ls)
             from == range.start.character
             to == range.end.character + offset
         IN IF from > to \/ to > Len(text) THEN Info("Panic", <<>>)
            ELSE Info("Some", SubSeq(text, from + 1, to))

\* config.types and config.scopes, by name
ConfigNames == {<<"a">>}

\* State::commit_type_info and State::commit_scope_info on the recorded
\* range
commit_element_info(state, recorded) ==
    IF ~recorded.some THEN Info("None", <<>>)
    ELSE LET name == get_text(state, recorded.range)
         IN IF name.kind = "Panic" THEN name
            ELSE IF name.what \in ConfigNames THEN name
            ELSE Info("None", <<>>)

commit_type_info(state) == commit_element_info(state, state.ty)
commit_scope_info(state) == commit_element_info(state, state.scope)

\* the last position of a set of positions
Max(S) == CHOOSE x \in S : \A y \in S : y <= x

\* State::lookup: the word under the cursor, Ty or Scope when its range is
\* the recorded one; no text tried holds a ticket reference
lookup(state, pos) ==
    IF pos.line + 1 > Len(state.lines) THEN Info("None", <<>>)
    ELSE LET line == state.lines[pos.line + 1]
             cursor == pos.character
             before == {i \in 1..cursor : ~is_alphanumeric(line[i])}
             after == {i \in (cursor + 1)..Len(line) : ~is_alphanumeric(line[i])}
             start == IF before = {} THEN 0 ELSE Max(before)
             end == IF after = {} THEN Len(line) ELSE Min(after) - 1
             range == partial_line(pos.line, Slice(start, end))
         IN IF cursor > Len(line) THEN Info("Panic", <<>>)
            ELSE IF start = end THEN Info("None", <<>>)
            ELSE IF SomeRange(range) = state.ty THEN Info("Ty", <<>>)
            ELSE IF SomeRange(range) = state.scope THEN Info("Scope", <<>>)
            ELSE Info("None", <<>>)

\* the positions asked about
Positions == {Position(l, c) : l \in 0..1, c \in 0..MaxText}

\* did_open and did_change call update_text
Analysis_update_text ==
    /\ analysis.pc = "on"
    /\ \E new_text \in Texts :
          analysis' = [update_text(analysis, new_text) EXCEPT !.info = NoInfo]
    /\ UNCHANGED <<ticket_cache, task, out, prev, alive, builder, env, main,
                   health, cred, adapter, git, text_util, lock, username,
                   handler>>

\* hover calls lookup
Analysis_lookup ==
    /\ analysis.pc = "on"
    /\ \E pos \in Positions :
          analysis' = [analysis EXCEPT !.info = lookup(analysis, pos)]
    /\ UNCHANGED <<ticket_cache, task, out, prev, alive, builder, env, main,
                   health, cred, adapter, git, text_util, lock, username,
                   handler>>

\* hover calls commit_type_info
Analysis_commit_type_info ==
    /\ analysis.pc = "on"
    /\ analysis' = [analysis EXCEPT !.info = commit_type_info(analysis)]
    /\ UNCHANGED <<ticket_cache, task, out, prev, alive, builder, env, main,
                   health, cred, adapter, git, text_util, lock, username,
                   handler>>

\* hover calls commit_scope_info
Analysis_commit_scope_info ==
    /\ analysis.pc = "on"
    /\ analysis' = [analysis EXCEPT !.info = commit_scope_info(analysis)]
    /\ UNCHANGED <<ticket_cache, task, out, prev, alive, builder, env, main,
                   health, cred, adapter, git, text_util, lock, username,
                   handler>>

\* ---------------------------------------------------------------- github.rs, get_username
\* the remote owner, and the logins the user-info request may report
str_owner == "owner"
Logins == {"login", "renamed"}

\* Result<String, UpstreamError>
NoName == [kind |-> "none", name |-> ""]
Ok_name(name) == [kind |-> "Ok", name |-> name]
Err_name(e) == [kind |-> e, name |-> ""]

\* a task that is not inside get_username and has not called it
NoCaller ==
    [pc |-> "idle", requested |-> FALSE, response |-> NoResponse,
     login |-> "", result |-> NoName]

\* OnceLock::get and OnceLock::set on the cell, <<>> while it is unset
OnceLock_get(cell) == cell
OnceLock_set(cell, value) ==
    IF cell = <<>> THEN [ok |-> TRUE, cell |-> <<value>>]
    ELSE [ok |-> FALSE, cell |-> cell]

\* task t returns from get_username
Github_return(t, result) ==
    username' = [username EXCEPT !.caller[t].pc = "returned",
                                 !.caller[t].result = result]

\* get_username, lines 47-61: the owner without a token, the memoized
\* login, or the user-info request is sent and the task suspends
Github_get_username_call(t) ==
    /\ username.pc = "on"
    /\ username.caller[t].pc \in {"idle", "returned"}
    /\ IF ~username.token
       THEN username' = [username EXCEPT
                !.caller[t] = [NoCaller EXCEPT !.pc = "returned",
                                  !.result = Ok_name(str_owner)]]
       ELSE IF OnceLock_get(username.cell) # <<>>
       THEN username' = [username EXCEPT
                !.caller[t] = [NoCaller EXCEPT !.pc = "returned",
                                  !.result = Ok_name(OnceLock_get(username.cell)[1])]]
       ELSE username' = [username EXCEPT
                !.caller[t] = [NoCaller EXCEPT !.pc = "send",
                                  !.requested = TRUE]]
    /\ UNCHANGED <<ticket_cache, task, out, prev, alive, builder, env, main,
                   health, cred, adapter, git, text_util, lock, handler,
                   analysis>>

\* line 61 resumes: `?` returns the failure of send, otherwise the body is
\* awaited
Github_get_username_sent(t, fault, login) ==
    /\ username.pc = "on"
    /\ username.caller[t].pc = "send"
    /\ LET response == github_service(fault, TRUE)
       IN IF ~response.sent
          THEN username' = [username EXCEPT
                   !.caller[t].pc = "returned",
                   !.caller[t].result = Err_name(From_reqwest_Error)]
          ELSE username' = [username EXCEPT
                   !.caller[t].pc = "json",
                   !.caller[t].response = response,
                   !.caller[t].login = login]
    /\ UNCHANGED <<ticket_cache, task, out, prev, alive, builder, env, main,
                   health, cred, adapter, git, text_util, lock, handler,
                   analysis>>

\* line 62 resumes: `?` returns the failure to decode; lines 63-67: the
\* login is stored in the cell, and a cell that is set already is an error
Github_get_username_decoded(t) ==
    /\ username.pc = "on"
    /\ username.caller[t].pc = "json"
    /\ LET c == username.caller[t]
           stored == OnceLock_set(username.cell, c.login)
       IN IF c.response.body # "ok"
          THEN Github_return(t, Err_name(From_reqwest_Error))
          ELSE IF ~stored.ok
          THEN Github_return(t, Err_name("Other"))
          ELSE username' = [username EXCEPT
                   !.cell = stored.cell,
                   !.caller[t].pc = "returned",
                   !.caller[t].result = Ok_name(c.login)]
    /\ UNCHANGED <<ticket_cache, task, out, prev, alive, builder, env, main,
                   health, cred, adapter, git, text_util, lock, handler,
                   analysis>>

\* ---------------------------------------------------------------- lsp.rs, handlers and locks
\* a std::sync::Mutex is free or held by a task
Free == 0

\* Backend::analysis and IssueTracker::ticket_cache when nobody holds them
Unlocked == [pc |-> "on", analysis |-> Free, ticket_cache |-> Free]

\* Option<Ticket>
NoTicket == <<>>

\* a task that runs no handler; id, answer, reply, missed and last are
\* those of the lookup it ran last: the adapter's answer, what the lookup
\* returned, whether it missed the cache and whether its insert is the
\* last write of the cache entry of its id
NoHandler ==
    [pc |-> "idle", id |-> 0, ticket |-> NoTicket, answer |-> NoAnswer,
     reply |-> [kind |-> "none", tickets |-> <<>>], missed |-> FALSE,
     last |-> FALSE]

\* the handler of task t starts at pc
Started(pc) == [NoHandler EXCEPT !.pc = pc]

\* the positions at which a handler is suspended in an awaited adapter
\* call and in an awaited call of the client
AdapterAwaits == {"bulk_list", "bulk_detail", "lookup_fetch"}
ClientAwaits == {"log", "publish"}

\* the positions at which a handler is about to lock the analysis state,
\* and the ticket cache
AnalysisLocks == {"text_lock", "hover_lock", "info_lock", "completion_lock"}
CacheLocks == {"bulk_lock", "get_lock", "insert_lock", "list_lock"}

\* what the handlers leave alone
served == <<task, out, prev, builder, env, main, health, cred, adapter, git,
            text_util, username, analysis>>

\* Mutex::lock: the task blocks until the mutex is free
Mutex_lock(t, name) ==
    /\ lock[name] = Free
    /\ lock' = [lock EXCEPT ![name] = t]

\* the guards of task t go out of scope
drop(t) ==
    lock' = [name \in DOMAIN lock |->
                IF name # "pc" /\ lock[name] = t THEN Free ELSE lock[name]]

\* mutant: the guard of line 92 lives until get_ticket_details returns
drop_at_return(t) == lock' = lock

\* get_ticket_details, line 92-94: the guard is a temporary of the `if let`
drop_cache_guard(t) == drop(t)

\* mutant: the guard of line 158 lives until hover returns
drop_keep_analysis(t) == lock' = lock

\* hover, line 158-160: the guard is a temporary of the `let ... else`
drop_lookup_guard(t) == drop(t)

\* task t moves from one position of its handler to the next
Goto(t, pc) == handler' = [handler EXCEPT ![t].pc = pc]

\* the handler of task t returns
Done(t) == handler' = [handler EXCEPT ![t].pc = "idle"]

\* a panic in a handler future unwinds Server::serve and main
Unwind(t) == alive' = FALSE /\ Done(t)

\* task t, about to lock the mutex `name` at `pc`, gets it
Locked(t, pc, name, next) ==
    /\ alive
    /\ handler[t].pc = pc
    /\ Mutex_lock(t, name)
    /\ Goto(t, next)
    /\ UNCHANGED <<ticket_cache, alive, served>>

\* initialized, lines 89-94: the spawned task calls
\* request_ticket_information, which calls list_ticket_numbers and suspends
Backend_initialized(t) ==
    /\ alive
    /\ handler[t].pc = "idle"
    /\ handler' = [handler EXCEPT ![t] = Started("bulk_list")]
    /\ UNCHANGED <<ticket_cache, lock, alive, served>>

\* mod.rs line 70 resumes with r: `?` returns a failure, which the spawned
\* task logs; a panic ends the spawned task; otherwise line 72 calls
\* get_ticket_details and suspends
Backend_bulk_listed(t, r) ==
    /\ alive
    /\ handler[t].pc = "bulk_list"
    /\ IF r.kind = "Ok" THEN Goto(t, "bulk_detail")
       ELSE IF r.kind = "Panic" THEN Done(t)
       ELSE Goto(t, "log")
    /\ UNCHANGED <<ticket_cache, lock, alive, served>>

\* mod.rs line 72 resumes with r; line 74 is about to lock the cache
Backend_bulk_detailed(t, r) ==
    /\ alive
    /\ handler[t].pc = "bulk_detail"
    /\ IF r.kind = "Ok"
       THEN handler' = [handler EXCEPT ![t].pc = "bulk_lock",
                                       ![t].answer = whole(r.kind, r.tickets)]
       ELSE IF r.kind = "Panic" THEN Done(t)
       ELSE Goto(t, "log")
    /\ UNCHANGED <<ticket_cache, lock, alive, served>>

\* mod.rs line 74-77: self.ticket_cache.lock().unwrap() ...
Backend_bulk_lock(t) == Locked(t, "bulk_lock", "ticket_cache", "bulk_extend")

\* ... .extend(tickets); the guard is dropped at the end of the statement
Backend_bulk_extend(t) ==
    /\ alive
    /\ handler[t].pc = "bulk_extend"
    /\ ticket_cache' = Extend(ticket_cache, handler[t].answer.tickets)
    /\ drop(t)
    /\ handler' =
          [u \in Tasks |->
              IF u = t THEN NoHandler
              ELSE IF \E i \in DOMAIN handler[t].answer.tickets :
                         handler[t].answer.tickets[i].id = handler[u].id
              THEN [handler[u] EXCEPT !.last = FALSE]
              ELSE handler[u]]
    /\ UNCHANGED <<alive, served>>

\* client.log_message(..).await and client.publish_diagnostics(..).await
\* resume; hover answers Ok(None) after the warning
Backend_client_answered(t) ==
    /\ alive
    /\ handler[t].pc \in ClientAwaits
    /\ Done(t)
    /\ UNCHANGED <<ticket_cache, lock, alive, served>>

\* did_open, line 113
Backend_did_open(t) ==
    /\ alive
    /\ handler[t].pc = "idle"
    /\ handler' = [handler EXCEPT ![t] = Started("text_lock")]
    /\ UNCHANGED <<ticket_cache, lock, alive, served>>

\* did_change, lines 132-136: content_changes.first().expect(..)
Backend_did_change(t, changes) ==
    /\ alive
    /\ handler[t].pc = "idle"
    /\ IF changes = 0
       THEN alive' = FALSE /\ handler' = [handler EXCEPT ![t] = NoHandler]
       ELSE /\ handler' = [handler EXCEPT ![t] = Started("text_lock")]
            /\ UNCHANGED alive
    /\ UNCHANGED <<ticket_cache, lock, served>>

\* did_open line 117, did_change line 140
Backend_text_lock(t) == Locked(t, "text_lock", "analysis", "text_update")

\* lines 119-125 and 142-148: update_text and all_diagnostics under the
\* guard, which the block drops; publish_diagnostics is awaited
Backend_text_update(t) ==
    /\ alive
    /\ handler[t].pc = "text_update"
    /\ drop(t)
    /\ Goto(t, "publish")
    /\ UNCHANGED <<ticket_cache, alive, served>>

\* hover, line 158: self.analysis.lock().unwrap() ...
Backend_hover(t) ==
    /\ alive
    /\ handler[t].pc = "idle"
    /\ handler' = [handler EXCEPT ![t] = Started("hover_lock")]
    /\ UNCHANGED <<ticket_cache, lock, alive, served>>

Backend_hover_lock(t) == Locked(t, "hover_lock", "analysis", "hover_lookup")

\* what lookup finds under the cursor: nothing, the type, the scope, a
\* ticket reference; or slicing the line at the cursor panics
Items ==
    [kind : {"None", "Ty", "Scope", "Panic"}, id : {0}]
        \cup [kind : {"Ref"}, id : Ids]

\* ... .lookup(pos), lines 158-164 and 193-195
Backend_hover_lookup(t, item) ==
    /\ alive
    /\ handler[t].pc = "hover_lookup"
    /\ IF item.kind = "Panic" THEN drop(t) /\ Unwind(t)
       ELSE /\ drop_lookup_guard(t)
            /\ UNCHANGED alive
            /\ IF item.kind = "None" THEN Done(t)
               ELSE IF item.kind = "Ref"
               THEN handler' = [handler EXCEPT ![t].pc = "get_lock",
                                               ![t].id = item.id]
               ELSE Goto(t, "info_lock")
    /\ UNCHANGED <<ticket_cache, served>>

\* hover, lines 166 and 180
Backend_info_lock(t) == Locked(t, "info_lock", "analysis", "info")

\* lines 167-177 and 181-191: commit_type_info or commit_scope_info under
\* the guard, dropped by the return
Backend_info(t) ==
    /\ alive
    /\ handler[t].pc = "info"
    /\ drop(t)
    /\ Done(t)
    /\ UNCHANGED <<ticket_cache, alive, served>>

\* mod.rs line 92: self.ticket_cache.lock().unwrap() ...
Backend_get_lock(t) == Locked(t, "get_lock", "ticket_cache", "get")

\* ... .get(&id), lines 92-96: a hit returns the cached ticket, a miss
\* calls the adapter and suspends
Backend_get(t) ==
    /\ alive
    /\ handler[t].pc = "get"
    /\ LET cached == Get(ticket_cache, handler[t].id)
       IN IF cached # <<>>
          THEN /\ drop(t)
               /\ handler' = [handler EXCEPT
                      ![t].pc = "idle",
                      ![t].reply = [kind |-> "Ok", tickets |-> cached]]
          ELSE /\ drop_cache_guard(t)
               /\ handler' = [handler EXCEPT ![t].pc = "lookup_fetch",
                                             ![t].missed = TRUE]
    /\ UNCHANGED <<ticket_cache, alive, served>>

\* mod.rs line 96 resumes with a; lines 98-102; lsp.rs lines 196-205
Backend_fetched(t, a) ==
    /\ alive
    /\ handler[t].pc = "lookup_fetch"
    /\ LET res == get_ticket_details_result(EmptyMap, handler[t].id, a)
           answered == [handler EXCEPT
                           ![t].answer = a,
                           ![t].reply = [kind |-> res.kind,
                                         tickets |-> <<>>]]
       IN IF res.kind = "Panic"
          THEN /\ alive' = FALSE
               /\ handler' = [answered EXCEPT ![t].pc = "idle"]
          ELSE /\ UNCHANGED alive
               /\ IF res.kind # "Ok"
                  THEN handler' = [answered EXCEPT ![t].pc = "log"]
                  ELSE IF res.tickets = <<>>
                  THEN handler' = [answered EXCEPT ![t].pc = "idle"]
                  ELSE handler' = [handler EXCEPT
                                      ![t].pc = "insert_lock",
                                      ![t].answer = a,
                                      ![t].ticket = res.tickets]
    /\ UNCHANGED <<ticket_cache, lock, served>>

\* mod.rs line 104: self.ticket_cache.lock().unwrap() ...
Backend_insert_lock(t) == Locked(t, "insert_lock", "ticket_cache", "insert")

\* ... .insert(id, ticket.clone()); line 105 and lsp.rs lines 208-215
Backend_insert(t) ==
    /\ alive
    /\ handler[t].pc = "insert"
    /\ ticket_cache' = Insert(ticket_cache, handler[t].id, handler[t].ticket[1])
    /\ drop(t)
    /\ handler' =
          [u \in Tasks |->
              IF u = t
              THEN [handler[t] EXCEPT
                       !.pc = "idle", !.ticket = NoTicket, !.last = TRUE,
                       !.reply = [kind |-> "Ok", tickets |-> handler[t].ticket]]
              ELSE IF handler[u].id = handler[t].id
              THEN [handler[u] EXCEPT !.last = FALSE]
              ELSE handler[u]]
    /\ UNCHANGED <<alive, served>>

\* completion, lines 227-228 and 258: on line 0 the analysis is locked,
\* elsewhere ticket_completion(false) lists the tickets
Backend_completion(t, line) ==
    /\ alive
    /\ handler[t].pc = "idle"
    /\ handler' = [handler EXCEPT ![t] =
                      Started(IF line = 0 THEN "completion_lock" ELSE "list_lock")]
    /\ UNCHANGED <<ticket_cache, lock, alive, served>>

Backend_completion_lock(t) ==
    Locked(t, "completion_lock", "analysis", "completion")

\* the trigger characters of a completion request
Triggers == {"none", "#", "("}

\* lines 229-257: "#" calls ticket_completion(true) with the guard of line
\* 228 alive; otherwise the types or scopes are returned and the guard is
\* dropped
Backend_completion_line0(t, trigger) ==
    /\ alive
    /\ handler[t].pc = "completion"
    /\ IF trigger = "#"
       THEN Goto(t, "list_lock") /\ UNCHANGED lock
       ELSE Done(t) /\ drop(t)
    /\ UNCHANGED <<ticket_cache, alive, served>>

\* ticket_completion, lines 29-30 and mod.rs line 83:
\* self.ticket_cache.lock().unwrap() ...
Backend_list_lock(t) == Locked(t, "list_lock", "ticket_cache", "list")

\* ... .values().cloned().collect(); the guards are dropped by the returns
Backend_list(t) ==
    /\ alive
    /\ handler[t].pc = "list"
    /\ drop(t)
    /\ handler' = [handler EXCEPT
                      ![t].pc = "idle",
                      ![t].reply = [kind |-> "Ok",
                                    tickets |-> Values(ticket_cache)]]
    /\ UNCHANGED <<ticket_cache, alive, served>>

\* ---------------------------------------------------------------- specs
TrackerInit ==
    /\ ticket_cache = EmptyMap
    /\ task = [t \in Tasks |-> Idle]
    /\ out = NoCall
    /\ prev = Summary(NoCall)
    /\ alive = TRUE

\* the parts of the program outside the issue tracker do not run
BeyondInit ==
    /\ text_util = Off
    /\ lock = Off
    /\ username = Off
    /\ handler = Off
    /\ analysis = Off

\* nothing but the tracker and its builder runs
ElsewhereInit ==
    /\ main = Off
    /\ health = <<>>
    /\ cred = Off
    /\ adapter = Off
    /\ git = Off
    /\ BeyondInit

Init ==
    /\ TrackerInit
    /\ ElsewhereInit
    /\ builder = [pc |-> "built", host |-> NoHost, tracker_type |-> "Demo"]
    /\ env = [debug_assertions |-> TRUE, demo_folder |-> TRUE]

\* the observer variables are not recorded
Unobserved == UNCHANGED <<out, prev>>

\* the handlers run as concurrent tasks on one tracker
Next ==
    \E t \in Tasks :
        \/ request_ticket_information_call(t) /\ Unobserved
        \/ \E r \in ListOutcome :
              request_ticket_information_listed(t, r) /\ Unobserved
        \/ \E r \in ListOutcome :
              request_ticket_information_list_failed(t, r) /\ Unobserved
        \/ \E r \in DetailOutcome :
              request_ticket_information_detailed(t, r) /\ Unobserved
        \/ list_tickets(t) /\ Unobserved
        \/ \E id \in Ids : get_ticket_details_hit(t, id) /\ Unobserved
        \/ \E id \in Ids : get_ticket_details_miss(t, id) /\ Unobserved
        \/ \E a \in SingleOutcome :
              get_ticket_details_fetched(t, a) /\ Unobserved

Spec == Init /\ [][Next]_vars

\* no task but t has a call in flight, and t is at pc
Alone(t, pc) ==
    /\ task[t].pc = pc
    /\ \A u \in Tasks \ {t} : task[u] = Idle

\* a call begins: the outcome before it becomes the previous one
Begin == out' = NoCall /\ prev' = Summary(out)

\* One caller, one call at a time, observed: out is the outcome of the call
\* that returned last (NoCall while a call is in flight) and prev sums up
\* the call before it.
NextSeq ==
    \E t \in Tasks :
        \/ Alone(t, "idle") /\ request_ticket_information_call(t) /\ Begin
        \/ /\ Alone(t, "bulk_list")
           /\ \E r \in ListOutcome :
                 /\ request_ticket_information_listed(t, r)
                 /\ UNCHANGED <<out, prev>>
        \/ /\ Alone(t, "bulk_list")
           /\ \E r \in ListOutcome :
                 /\ request_ticket_information_list_failed(t, r)
                 /\ out' = request_ticket_information_list_failed_out(t, r)
                 /\ UNCHANGED prev
        \/ /\ Alone(t, "bulk_detail")
           /\ \E r \in DetailOutcome :
                 /\ request_ticket_information_detailed(t, r)
                 /\ out' = request_ticket_information_detailed_out(t, r)
                 /\ UNCHANGED prev
        \/ /\ Alone(t, "idle")
           /\ list_tickets(t)
           /\ out' = list_tickets_out(t)
           /\ prev' = Summary(out)
        \/ /\ Alone(t, "idle")
           /\ \E id \in Ids :
                 /\ get_ticket_details_hit(t, id)
                 /\ out' = get_ticket_details_hit_out(t, id)
                 /\ prev' = Summary(out)
        \/ /\ Alone(t, "idle")
           /\ \E id \in Ids : get_ticket_details_miss(t, id) /\ Begin
        \/ /\ Alone(t, "lookup_fetch")
           /\ \E a \in SingleOutcome :
                 /\ get_ticket_details_fetched(t, a)
                 /\ out' = get_ticket_details_fetched_out(t, a)
                 /\ UNCHANGED prev

SpecSeq == Init /\ [][NextSeq]_vars

\* a remote URL has been read; Builder::new is applied to it
InitBuilder ==
    /\ TrackerInit
    /\ ElsewhereInit
    /\ builder \in [pc : {"url"}, host : Hosts, tracker_type : {"unset"}]
    /\ env \in [debug_assertions : BOOLEAN, demo_folder : BOOLEAN]

NextBuilder == Builder_new

SpecBuilder == InitBuilder /\ [][NextBuilder]_vars

\* a configuration and a remote URL have been read
InitConfig ==
    /\ TrackerInit
    /\ builder = [pc |-> "built", host |-> NoHost, tracker_type |-> "Demo"]
    /\ env = [debug_assertions |-> TRUE, demo_folder |-> TRUE]
    /\ main \in [pc : {"config"},
                 remotes : SeqUpTo(LookupRemotes, MaxRemotes),
                 remote_url : Urls,
                 remote_config : {<<>>}]
    /\ health = <<>>
    /\ cred = Off
    /\ adapter = Off
    /\ git = Off
    /\ BeyondInit

NextConfig == User_remote_specific_configuration

SpecConfig == InitConfig /\ [][NextConfig]_vars

\* a command line is given and the process it starts is fixed
InitCredentials ==
    /\ TrackerInit
    /\ builder = [pc |-> "built", host |-> NoHost, tracker_type |-> "Demo"]
    /\ env = [debug_assertions |-> TRUE, demo_folder |-> TRUE]
    /\ main = Off
    /\ health = <<>>
    /\ cred \in [pc : {"call"}, cmdline : CommandLines, process : Processes,
                 result : {[kind |-> "none", secret |-> NoSecret,
                            warning |-> NoWarning]}]
    /\ adapter = Off
    /\ git = Off
    /\ BeyondInit

NextCredentials == get_credentials_call

SpecCredentials == InitCredentials /\ [][NextCredentials]_vars

\* the server starts: initialize_issue_tracker is called in some build
\* profile and environment
InitStartup ==
    /\ TrackerInit
    /\ builder = [pc |-> "none", host |-> NoHost, tracker_type |-> "unset",
                  url |-> NoUrl, credential_command |-> NoCommand]
    /\ env \in [debug_assertions : BOOLEAN, demo_folder : BOOLEAN]
    /\ main = [pc |-> "start", remote_url |-> NoUrl, remote_config |-> <<>>,
               panic_at |-> "none", tracker |-> NoTracker]
    /\ health = <<>>
    /\ cred = NoCredCall
    /\ adapter = Off
    /\ git = Off
    /\ BeyondInit

\* the settings of the per-remote entries of a configuration
RemoteSettings == {r \in Remote : r.host = <<>>}

NextStartup ==
    \/ /\ main.pc = "start"
       /\ \E r \in RepoUrlOutcome : initialize_issue_tracker_url(r)
    \/ Builder_new
    \/ /\ main.pc = "url"
       /\ builder.pc = "new"
       /\ \E settings \in RemoteSettings :
             \E remotes \in Users(settings) :
                 initialize_issue_tracker_kind(remotes)
    \/ initialize_issue_tracker_config
    \/ /\ main.pc = "configured"
       /\ \E p \in BuildProcesses : Builder_build(p)

SpecStartup == InitStartup /\ [][NextStartup]_vars

\* an adapter operation is called while the backend is in some condition
InitAdapter ==
    /\ TrackerInit
    /\ builder = [pc |-> "built", host |-> NoHost, tracker_type |-> "Demo"]
    /\ env = [debug_assertions |-> TRUE, demo_folder |-> TRUE]
    /\ main = Off
    /\ health = <<>>
    /\ cred = Off
    /\ adapter \in Calls
    /\ git = Off
    /\ BeyondInit

NextAdapter ==
    \/ Adapter_return("Github", "list", Github_list_ticket_numbers(adapter))
    \/ Adapter_return("Github", "details",
                      Github_get_ticket_details(adapter, adapter.ids))
    \/ Adapter_return("AzureDevOps", "list",
                      AzureDevops_list_ticket_numbers(adapter))
    \/ Adapter_return("AzureDevOps", "details",
                      AzureDevops_get_ticket_details(adapter))
    \/ Adapter_return("Gitlab", "list", Gitlab_list_ticket_numbers(adapter))
    \/ Adapter_return("Gitlab", "details", Gitlab_get_ticket_details(adapter))
    \/ Adapter_return("Demo", "list", DemoAdapter_list_ticket_numbers(adapter))
    \/ Adapter_return("Demo", "details",
                      DemoAdapter_get_ticket_details(adapter))

SpecAdapter == InitAdapter /\ [][NextAdapter]_vars

\* get_repo_root is called in some directory of some repository
InitGit ==
    /\ TrackerInit
    /\ builder = [pc |-> "built", host |-> NoHost, tracker_type |-> "Demo"]
    /\ env = [debug_assertions |-> TRUE, demo_folder |-> TRUE]
    /\ main = Off
    /\ health = <<>>
    /\ cred = Off
    /\ adapter = Off
    /\ git \in Repositories
    /\ BeyondInit

NextGit == get_repo_root_call

SpecGit == InitGit /\ [][NextGit]_vars

\* the demo adapter is called on a fixture folder
InitDemo ==
    /\ TrackerInit
    /\ builder = [pc |-> "built", host |-> NoHost, tracker_type |-> "Demo"]
    /\ env = [debug_assertions |-> TRUE, demo_folder |-> TRUE]
    /\ main = Off
    /\ health = <<>>
    /\ cred = Off
    /\ adapter \in DemoCalls
    /\ git = Off
    /\ BeyondInit

NextDemo ==
    \/ DemoAdapter_details
    \/ DemoAdapter_list

SpecDemo == InitDemo /\ [][NextDemo]_vars

\* a string is truncated
InitEllipse ==
    /\ TrackerInit
    /\ builder = [pc |-> "built", host |-> NoHost, tracker_type |-> "Demo"]
    /\ env = [debug_assertions |-> TRUE, demo_folder |-> TRUE]
    /\ main = Off
    /\ health = <<>>
    /\ cred = Off
    /\ adapter = Off
    /\ git = Off
    /\ text_util \in EllipseCalls
    /\ lock = Off
    /\ username = Off
    /\ handler = Off
    /\ analysis = Off

NextEllipse ==
    \/ Ellipse_truncate_ellipse_with
    \/ Ellipse_truncate_ellipse

SpecEllipse == InitEllipse /\ [][NextEllipse]_vars

\* the analysis state of the server follows the text of the editor
InitAnalysis ==
    /\ TrackerInit
    /\ builder = [pc |-> "built", host |-> NoHost, tracker_type |-> "Demo"]
    /\ env = [debug_assertions |-> TRUE, demo_folder |-> TRUE]
    /\ main = Off
    /\ health = <<>>
    /\ cred = Off
    /\ adapter = Off
    /\ git = Off
    /\ text_util = Off
    /\ lock = Off
    /\ username = Off
    /\ handler = Off
    /\ analysis = State_new

NextAnalysis ==
    \/ Analysis_update_text
    \/ Analysis_lookup
    \/ Analysis_commit_type_info
    \/ Analysis_commit_scope_info

SpecAnalysis == InitAnalysis /\ [][NextAnalysis]_vars

\* tasks call get_username of one GitHub adapter, with or without a token
InitUsername ==
    /\ TrackerInit
    /\ builder = [pc |-> "built", host |-> NoHost, tracker_type |-> "Demo"]
    /\ env = [debug_assertions |-> TRUE, demo_folder |-> TRUE]
    /\ main = Off
    /\ health = <<>>
    /\ cred = Off
    /\ adapter = Off
    /\ git = Off
    /\ text_util = Off
    /\ lock = Off
    /\ username \in [pc : {"on"}, token : BOOLEAN, cell : {<<>>},
                     caller : {[t \in Tasks |-> NoCaller]}]
    /\ handler = Off
    /\ analysis = Off

NextUsername ==
    \E t \in Tasks :
        \/ Github_get_username_call(t)
        \/ \E fault \in Faults, login \in Logins :
              Github_get_username_sent(t, fault, login)
        \/ Github_get_username_decoded(t)

SpecUsername == InitUsername /\ [][NextUsername]_vars

\* the handlers of the server run as concurrent tasks
InitServe ==
    /\ TrackerInit
    /\ builder = [pc |-> "built", host |-> NoHost, tracker_type |-> "Demo"]
    /\ env = [debug_assertions |-> TRUE, demo_folder |-> TRUE]
    /\ main = Off
    /\ health = <<>>
    /\ cred = Off
    /\ adapter = Off
    /\ git = Off
    /\ text_util = Off
    /\ lock = Unlocked
    /\ username = Off
    /\ handler = [t \in Tasks |-> NoHandler]
    /\ analysis = Off

NextServe ==
    \E t \in Tasks :
        \/ Backend_initialized(t)
        \/ handler[t].pc = "bulk_list" /\ \E r \in ListOutcome : Backend_bulk_listed(t, r)
        \/ handler[t].pc = "bulk_detail" /\ \E r \in DetailOutcome : Backend_bulk_detailed(t, r)
        \/ Backend_bulk_lock(t)
        \/ Backend_bulk_extend(t)
        \/ Backend_client_answered(t)
        \/ Backend_did_open(t)
        \/ \E changes \in 0..1 : Backend_did_change(t, changes)
        \/ Backend_text_lock(t)
        \/ Backend_text_update(t)
        \/ Backend_hover(t)
        \/ Backend_hover_lock(t)
        \/ \E item \in Items : Backend_hover_lookup(t, item)
        \/ Backend_info_lock(t)
        \/ Backend_info(t)
        \/ Backend_get_lock(t)
        \/ Backend_get(t)
        \/ handler[t].pc = "lookup_fetch" /\ \E a \in SingleOutcome : Backend_fetched(t, a)
        \/ Backend_insert_lock(t)
        \/ Backend_insert(t)
        \/ \E line \in 0..1 : Backend_completion(t, line)
        \/ Backend_completion_lock(t)
        \/ \E trigger \in Triggers : Backend_completion_line0(t, trigger)
        \/ Backend_list_lock(t)
        \/ Backend_list(t)

SpecServe == InitServe /\ [][NextServe]_vars

\* ---------------------------------------------------------------- claims
BULK == "request_ticket_information"
LOOKUP == "get_ticket_details"
LIST == "list_tickets"

\* the step completes the bulk fetch of some task
BulkCompletes ==
    \E t \in Tasks :
        task[t].pc \in {"bulk_list", "bulk_detail"} /\ task'[t].pc = "idle"

\* the step completes the single-id fetch of some task
FetchCompletes ==
    \E t \in Tasks : task[t].pc = "lookup_fetch" /\ task'[t].pc = "idle"

\* C1: a bulk fetch whose id-listing or detail-fetch step fails returns
\* that failure and no tickets, and the step leaves the ticket cache, and
\* so the snapshot list_tickets would give, exactly as it was.
C1_BulkFetchAllOrNothing ==
    [][(BulkCompletes /\ out'.answer.kind # "Ok")
          => /\ out'.op = BULK
             /\ out'.kind = out'.answer.kind
             /\ out'.tickets = <<>>
             /\ ticket_cache' = ticket_cache
             /\ Values(ticket_cache') = Values(ticket_cache)]_vars

\* a bulk fetch failed in its detail step on a populated cache
C1_Witness ==
    /\ out.op = BULK
    /\ out.kind \in UpstreamError
    /\ out.calls = 2
    /\ ticket_cache # EmptyMap

\* C2: a single-ticket lookup of a cached id returns the cached ticket,
\* makes no adapter call (no task ever starts a fetch for an id that is in
\* the cache) and leaves the cache unchanged.
C2_CacheHitNoAdapterCall ==
    /\ []((out.op = LOOKUP /\ out.calls = 0)
            => /\ out.answer = NoAnswer
               /\ out.kind = "Ok"
               /\ out.id \in DOMAIN ticket_cache
               /\ out.tickets = <<ticket_cache[out.id]>>)
    /\ [][/\ \A t \in Tasks :
                (task[t].pc = "idle" /\ task'[t].pc = "lookup_fetch")
                    => task'[t].id \notin DOMAIN ticket_cache
          /\ (out'.op = LOOKUP /\ out'.calls = 0)
                => ticket_cache' = ticket_cache]_vars

\* a lookup was answered from the cache
C2_Witness ==
    /\ out.op = LOOKUP
    /\ out.calls = 0
    /\ out.tickets # <<>>
    /\ out.tickets[1].id = out.id

\* C3 as stated: two sequential lookups of the same id make at most one
\* adapter detail fetch in total, whatever the adapter answers.
C3_AtMostOneFetchAlways ==
    (prev.op = LOOKUP /\ out.op = LOOKUP /\ prev.id = out.id)
        => prev.calls + out.calls <= 1

\* C3: two sequential lookups of the same id make at most one adapter
\* detail fetch in total when the first lookup returned a ticket; when the
\* first found nothing or failed, nothing was cached and the second lookup
\* fetches again.
C3_AtMostOneFetchOnceFound ==
    (prev.op = LOOKUP /\ out.op = LOOKUP /\ prev.id = out.id)
        => /\ prev.found => prev.calls + out.calls <= 1
           /\ ~prev.found => out.calls = 1

\* a lookup that fetched and returned a ticket, followed by a lookup of the
\* same id that was a cache hit
C3_Witness ==
    /\ prev.op = LOOKUP
    /\ prev.found
    /\ prev.calls = 1
    /\ out.op = LOOKUP
    /\ out.id = prev.id
    /\ out.calls = 0

\* the position of the last ticket with this id in a ticket list
LastWithId(tickets, id) ==
    CHOOSE i \in 1..Len(tickets) :
        /\ tickets[i].id = id
        /\ \A j \in (i + 1)..Len(tickets) : tickets[j].id # id

FetchedIds(tickets) == {tickets[i].id : i \in 1..Len(tickets)}

\* C4: a successful bulk fetch returns exactly the tickets the adapter's
\* detail fetch returned, and the cache after it is the old cache
\* overwritten per id by them: a fetched id maps to its fetched ticket (the
\* last one, should the adapter return an id twice) and every other cached
\* id keeps its ticket.
C4_BulkFetchMerges ==
    [][(BulkCompletes /\ out'.answer.kind = "Ok")
          => /\ out'.op = BULK
             /\ out'.kind = "Ok"
             /\ out'.tickets = out'.answer.tickets
             /\ DOMAIN ticket_cache' =
                    DOMAIN ticket_cache \cup FetchedIds(out'.answer.tickets)
             /\ \A id \in DOMAIN ticket_cache' :
                    ticket_cache'[id] =
                        IF id \in FetchedIds(out'.answer.tickets)
                        THEN out'.answer.tickets[
                                 LastWithId(out'.answer.tickets, id)]
                        ELSE ticket_cache[id]]_vars

\* a bulk fetch returned tickets while an id it did not fetch was cached
C4_Witness ==
    /\ out.op = BULK
    /\ out.kind = "Ok"
    /\ out.tickets # <<>>
    /\ \E id \in DOMAIN ticket_cache : id \notin FetchedIds(out.tickets)

\* C5: every cache entry is stored under the id of its ticket; a lookup
\* never returns a ticket of another id; when the first ticket of the
\* adapter's answer to a single-id fetch has another id the lookup panics
\* (no recoverable error) and the cache is not touched.
C5_KeyIsTicketId ==
    /\ [](/\ \A id \in DOMAIN ticket_cache : ticket_cache[id].id = id
          /\ (out.op = LOOKUP /\ out.kind = "Ok")
                => \A i \in 1..Len(out.tickets) : out.tickets[i].id = out.id
          /\ (/\ out.op = LOOKUP
              /\ out.answer.kind = "Ok"
              /\ out.answer.tickets # <<>>
              /\ out.answer.tickets[1].id # out.id)
                => (out.kind = "Panic" /\ out.tickets = <<>> /\ ~alive))
    /\ [][(FetchCompletes /\ out'.kind = "Panic")
             => ticket_cache' = ticket_cache]_vars

\* the adapter answered a single-id fetch with a ticket of another id
C5_Witness ==
    /\ out.op = LOOKUP
    /\ out.answer.kind = "Ok"
    /\ out.answer.tickets # <<>>
    /\ out.answer.tickets[1].id # out.id
    /\ ticket_cache # EmptyMap

\* C6: a lookup of an uncached id makes one single-id detail fetch; an
\* answer without tickets gives Ok(None), not an error, and leaves the
\* cache unchanged; an answer of exactly one ticket with the requested id
\* is inserted under that id and returned.
C6_CacheMiss ==
    /\ [](/\ \A t \in Tasks :
                task[t].pc = "lookup_fetch"
                    => (task[t].calls = 1 /\ task[t].id \in Ids)
          /\ (out.op = LOOKUP /\ out.answer # NoAnswer) => out.calls = 1
          /\ (/\ out.op = LOOKUP
              /\ out.answer.kind = "Ok"
              /\ out.answer.tickets = <<>>)
                => (out.kind = "Ok" /\ out.tickets = <<>> /\ alive)
          /\ (/\ out.op = LOOKUP
              /\ out.answer.kind = "Ok"
              /\ out.answer.len = 1
              /\ out.answer.tickets[1].id = out.id)
                => /\ out.kind = "Ok"
                   /\ out.tickets = out.answer.tickets
                   /\ out.id \in DOMAIN ticket_cache
                   /\ ticket_cache[out.id] = out.answer.tickets[1])
    /\ [][(/\ FetchCompletes
           /\ out'.answer.kind = "Ok"
           /\ out'.answer.tickets = <<>>)
             => ticket_cache' = ticket_cache]_vars

\* a lookup missed a populated cache and the adapter had no such ticket
C6_Witness ==
    /\ out.op = LOOKUP
    /\ out.calls = 1
    /\ out.answer.kind = "Ok"
    /\ out.answer.tickets = <<>>
    /\ ticket_cache # EmptyMap
    /\ out.id \notin DOMAIN ticket_cache

\* C7: list_tickets returns exactly the tickets in the cache, one per
\* entry, makes no adapter call, does not modify the cache, and returns the
\* empty list while nothing has been cached.
C7_SnapshotListing ==
    /\ [](out.op = LIST
            => /\ out.calls = 0
               /\ out.answer = NoAnswer
               /\ out.kind = "Ok"
               /\ Len(out.tickets) = Cardinality(DOMAIN ticket_cache)
               /\ {out.tickets[i] : i \in 1..Len(out.tickets)} =
                      {ticket_cache[id] : id \in DOMAIN ticket_cache}
               /\ (ticket_cache = EmptyMap => out.tickets = <<>>))
    /\ [][out'.op = LIST => ticket_cache' = ticket_cache]_vars

\* a snapshot of a cache holding every id
C7_Witness ==
    /\ out.op = LIST
    /\ Len(out.tickets) = Cardinality(Ids)

\* C8: the set of cached ids never loses an element, whatever calls
\* interleave, and the cache holds at most one ticket per id.
C8_CacheOnlyGrows ==
    /\ [][DOMAIN ticket_cache \subseteq DOMAIN ticket_cache']_vars
    /\ [](LET all == Values(ticket_cache)
          IN \A i, j \in 1..Len(all) : all[i].id = all[j].id => i = j)

\* every id is cached, in different versions, while one task is in a bulk
\* fetch and another in a single-id fetch
C8_Witness ==
    /\ DOMAIN ticket_cache = Ids
    /\ \E i, j \in Ids : ticket_cache[i].ver # ticket_cache[j].ver
    /\ \E t, u \in Tasks :
          task[t].pc = "bulk_detail" /\ task[u].pc = "lookup_fetch"

\* C9: every failure of a tracker call (adapter error, malformed response,
\* adapter misbehaviour) is logged as a warning, a failed hover lookup is
\* answered with nothing, and the server process stays alive.
C9_FailuresDegradeGracefully ==
    /\ alive
    /\ (out.op \in {BULK, LOOKUP} /\ out.kind # "Ok") => out.warned
    /\ (out.op = LOOKUP /\ out.kind # "Ok") => out.reply = "None"

\* the characters of pat occur in s from position i on
OccursAt(s, pat, i) ==
    \A k \in 1..Len(pat) : i + k - 1 <= Len(s) /\ s[i + k - 1] = pat[k]

\* C10: without the debug override, Builder::new guesses AzureDevOps for
\* dev.azure.com and ssh.dev.azure.com, GitHub for exactly github.com,
\* GitLab for every host containing "gitlab", and nothing for every other
\* host and for a URL without host.
C10_GuessFromUrl ==
    (builder.pc = "new" /\ ~(env.debug_assertions /\ env.demo_folder))
        => LET h == builder.host
               azure == h.some /\ h.s \in {str_dev_azure_com, str_ssh_dev_azure_com}
               github == h.some /\ h.s = str_github_com
               gitlab == h.some /\ \E i \in 1..Len(h.s) : OccursAt(h.s, str_gitlab, i)
           IN /\ azure => builder.tracker_type = "AzureDevOps"
              /\ github => builder.tracker_type = "Github"
              /\ gitlab => builder.tracker_type = "Gitlab"
              /\ ~(azure \/ github \/ gitlab) => builder.tracker_type = "None"

\* GitLab was guessed for a host that merely contains "gitlab"
C10_Witness ==
    /\ builder.pc = "new"
    /\ ~(env.debug_assertions /\ env.demo_folder)
    /\ builder.tracker_type = "Gitlab"
    /\ builder.host.s # str_gitlab
    /\ Len(builder.host.s) > Len(str_gitlab) + 4

\* entry i of the configuration names a host that occurs in the URL
HostOccurs(i) ==
    LET h == main.remotes[i].host
    IN \E k \in 1..(Len(main.remote_url.s) + 1) :
          OccursAt(main.remote_url.s, h, k)

\* C13: the per-remote lookup returns the first entry, in list order,
\* whose host is a substring of the URL, and none when no entry's host
\* occurs in the URL.
C13_FirstSubstringMatch ==
    main.pc = "found"
        => LET matching == {i \in 1..Len(main.remotes) : HostOccurs(i)}
           IN IF matching = {} THEN main.remote_config = <<>>
              ELSE main.remote_config = <<main.remotes[Min(matching)]>>

\* two different entries match and the first of them is returned
C13_Witness ==
    /\ main.pc = "found"
    /\ Len(main.remotes) >= 2
    /\ HostOccurs(1)
    /\ HostOccurs(2)
    /\ main.remotes[1] # main.remotes[2]
    /\ main.remotes[1].host # <<>>
    /\ main.remote_config = <<main.remotes[1]>>

\* s with whitespace, and only whitespace, taken off both ends
IsTrimOf(t, s) ==
    /\ (t # <<>> => (t[1] \notin Whitespace /\ t[Len(t)] \notin Whitespace))
    /\ \E i \in 0..Len(s) :
          /\ i + Len(t) <= Len(s)
          /\ SubSeq(s, i + 1, i + Len(t)) = t
          /\ \A k \in (1..i) \cup ((i + Len(t) + 1)..Len(s)) :
                s[k] \in Whitespace

\* C17: get_credentials gives, for a command that exits with status 0, its
\* standard output with leading and trailing whitespace removed; for a
\* command that exits otherwise no credential and a warning carrying exit
\* code and error stream; for the empty command list an outcome that is no
\* crash, differs from that of a failed command and is not reported as a
\* failure.
C17_CredentialResolver ==
    cred.pc = "returned"
        => LET p == cred.process
               res == cred.result
               ran == cred.cmdline # <<>> /\ p.spawned
           IN /\ (ran /\ success(p.code))
                    => /\ res.kind = "Some"
                       /\ res.secret.some
                       /\ IsTrimOf(res.secret.s, p.stdout)
              /\ (ran /\ ~success(p.code))
                    => /\ res.kind = "None"
                       /\ res.warning =
                              [some |-> TRUE, stderr |-> p.stderr,
                               code |-> p.code]
              /\ cred.cmdline = <<>>
                    => /\ res.kind \notin {"Panic", "None"}
                       /\ health[Len(health)].state # "Error"

\* C11: the kind the builder ends with, and the kind of the tracker built
\* from it, is the kind the matching per-remote configuration names
\* whenever it names one, and the guessed kind otherwise
C11_ConfiguredKindWins ==
    main.pc \in {"kind", "configured", "done"} /\ builder.pc # "none" =>
        LET named == /\ main.remote_config # <<>>
                     /\ main.remote_config[1].issue_tracker_type # "None"
            guessed == guess_from_url(env, main.remote_url.host)
            kind == IF named THEN main.remote_config[1].issue_tracker_type
                    ELSE guessed
        IN /\ builder.tracker_type = kind
           /\ (main.pc = "done" /\ main.tracker.some =>
                  main.tracker.remote.kind = kind)

\* a tracker was built of a configured kind that is not the guessed one
C11_Witness ==
    /\ main.pc = "done"
    /\ main.tracker.some
    /\ main.remote_config # <<>>
    /\ main.remote_config[1].issue_tracker_type = main.tracker.remote.kind
    /\ guess_from_url(env, main.remote_url.host)
           \notin {"None", main.tracker.remote.kind}

\* the debug build runs with COMMIT_LSP_DEMO_FOLDER set
DemoForced == env.debug_assertions /\ env.demo_folder

\* the matching per-remote configuration names a kind
KindConfigured ==
    /\ main.remote_config # <<>>
    /\ main.remote_config[1].issue_tracker_type # "None"

\* initialize_issue_tracker returned from Builder::build
Built == main.pc = "done" /\ builder.pc = "built"

\* C12 as stated: in a debug build with COMMIT_LSP_DEMO_FOLDER set the
\* tracker that is built is the Demo one, whatever the remote host and the
\* per-remote configuration are
C12_DemoUnconditional ==
    DemoForced /\ Built /\ main.tracker.some =>
        main.tracker.remote.kind = "Demo"

\* C12, amended: in a debug build with COMMIT_LSP_DEMO_FOLDER set the guess
\* is Demo whatever the remote host is, and Builder::build gives a Demo
\* tracker unless the matching per-remote configuration names a kind, which
\* is then the kind of the tracker if one is built
C12_DemoUnlessConfigured ==
    DemoForced =>
        /\ (main.pc = "url" /\ builder.pc = "new" =>
               builder.tracker_type = "Demo")
        /\ (Built /\ ~KindConfigured =>
               main.tracker.some /\ main.tracker.remote.kind = "Demo")
        /\ (Built /\ KindConfigured /\ main.tracker.some =>
               main.tracker.remote.kind =
                   main.remote_config[1].issue_tracker_type)

\* a Demo tracker was built for a GitHub remote whose matching
\* configuration names no kind
C12_Witness ==
    /\ DemoForced
    /\ Built
    /\ main.remote_url.host.s = str_github_com
    /\ main.remote_config # <<>>
    /\ ~KindConfigured
    /\ main.tracker.some
    /\ main.tracker.remote.kind = "Demo"

\* the matching per-remote configuration has a URL override
OverrideConfigured ==
    /\ main.remote_config # <<>>
    /\ main.remote_config[1].issue_tracker_url.some

\* Builder::add_remote_config has been called with the matching
\* configuration
AddRemoteConfigCalled ==
    \/ main.pc \in {"configured", "done"} /\ builder.pc # "none"
    \/ main.pc = "panicked"

\* C14: an override that parses becomes the builder's URL; one that does
\* not parse is reported as an error of "Apply url overwrite", the builder
\* keeps the remote URL and initialize_issue_tracker goes on to
\* Builder::build without a panic
C14_UrlOverride ==
    AddRemoteConfigCalled /\ OverrideConfigured =>
        LET parsed == GitUrl_parse(main.remote_config[1].issue_tracker_url.s)
        IN /\ \E i \in DOMAIN health :
                  /\ health[i].name = "Apply url overwrite"
                  /\ health[i].state = IF parsed.ok THEN "Ok" ELSE "Error"
           /\ builder.url = IF parsed.ok THEN parsed.url ELSE main.remote_url
           /\ main.panic_at # "add_remote_config"

\* Builder::build has been called: it returned or panicked
BuildCalled == Built \/ main.panic_at = "build"

\* the credential command Builder::build ran failed: it could not be run
\* or exited with another status than 0
CommandFailed ==
    /\ builder.credential_command.some
    /\ cred.pc = "returned"
    /\ cred.cmdline # <<>>
    /\ (~cred.process.spawned \/ ~success(cred.process.code))

\* the backends whose adapter needs a credential
RequiresCredential == {"AzureDevOps", "Gitlab"}

\* C15: without a credential command Builder::build reports no error and
\* the adapter it constructs holds no credential; with a credential
\* command that cannot be run or exits non-zero it returns, with an absent
\* tracker for the backends requiring a credential, and a tracker it
\* returns holds no credential
C15_CredentialFailure ==
    /\ BuildCalled /\ ~builder.credential_command.some =>
          /\ \A i \in DOMAIN health :
                health[i].name \in {"Check for credentials command",
                                    "Get credentials"}
                    => health[i].state # "Error"
          /\ (Built /\ main.tracker.some => ~main.tracker.remote.secret.some)
    /\ BuildCalled /\ CommandFailed =>
          /\ cred.result.kind # "Panic"
          /\ (Built /\ builder.tracker_type \in RequiresCredential =>
                 ~main.tracker.some)
          /\ (Built /\ main.tracker.some => ~main.tracker.remote.secret.some)

\* a field the adapter of the resolved kind requires is missing from the
\* configuration Builder::build hands it
RequiredFieldMissing ==
    LET secret == IF builder.credential_command.some
                  THEN cred.result.secret.some ELSE FALSE
    IN \/ /\ builder.tracker_type = "AzureDevOps"
          /\ ~(secret /\ builder.url.organization /\ builder.url.owner)
       \/ /\ builder.tracker_type = "Github"
          /\ ~builder.url.owner
       \/ /\ builder.tracker_type = "Gitlab"
          /\ ~(secret /\ builder.url.host.some /\ builder.url.owner)

\* C16: Builder::build does not abort; it returns an absent tracker when
\* no kind is resolved or a field the adapter requires is missing, and
\* otherwise a tracker of the resolved kind whose cache is empty
C16_BuildNeverFails ==
    BuildCalled =>
        /\ main.panic_at # "build"
        /\ main.tracker.some
              = ~(builder.tracker_type = "None" \/ RequiredFieldMissing)
        /\ (main.tracker.some =>
               /\ main.tracker.remote.kind = builder.tracker_type
               /\ main.tracker.ticket_cache = EmptyMap)

\* the tickets of the ids asked for that have one
MatchingTickets ==
    {TicketOf(adapter.up, adapter.ids[i]) :
        i \in {j \in DOMAIN adapter.ids : adapter.up[adapter.ids[j]] # Missing}}

\* C18: a detail fetch from a backend that is in order succeeds and
\* returns the tickets of the ids that have one, whether or not every id
\* asked for has a ticket
C18_UnmatchedIdsAbsent ==
    /\ adapter.pc = "returned"
    /\ adapter.op = "details"
    /\ adapter.fault = "none"
    => /\ adapter.result.kind = "Ok"
       /\ {adapter.result.tickets[i] : i \in DOMAIN adapter.result.tickets}
              = MatchingTickets

\* a backend failure of the three kinds the taxonomy names
Unauthorized == adapter.fault = "unauthorized"
Unreachable == adapter.fault = "unreachable"
Malformed == adapter.fault \in {"not_json", "unexpected_shape", "bad_item"}

\* C19: an operation of a network adapter gives the authentication error
\* for a rejected credential, the transport error for a backend that cannot
\* be reached, the other error for a malformed payload, and never panics
C19_ErrorTaxonomy ==
    /\ adapter.pc = "returned"
    /\ adapter.kind \in {"Github", "Gitlab", "AzureDevOps"}
    => /\ adapter.result.kind # "Panic"
       /\ (Unauthorized => adapter.result.kind = "Authentication")
       /\ (Unreachable => adapter.result.kind = "Transport")
       /\ (Malformed => adapter.result.kind = "Other")

\* the metadata path of a listed worktree whose query printed one
Meta(c) == join(c.path, trim_end(c.out))

\* the listed worktrees whose metadata path is p
MatchesOf(p) ==
    {i \in DOMAIN git.worktrees :
        git.worktrees[i].probe = "ok" /\ Meta(git.worktrees[i]) = p}

\* the fallback of get_repo_root ran through the worktree listing
Scanned ==
    /\ git.pc = "returned"
    /\ git.toplevel = "failed"
    /\ git.target.ok
    /\ git.base.ok
    /\ git.listed

\* C20: get_repo_root returns the top-level path when that query succeeds;
\* otherwise the first listed worktree whose metadata path is the current
\* directory's, wherever the main worktree is listed; the main worktree
\* when none is; the error Other when the directory is in no repository or
\* no listed worktree matches either path; and no path but the top-level
\* path or a listed worktree's
C20_RepoLocator ==
    LET target == MatchesOf(trim_end(git.target.out))
        base == MatchesOf(trim_end(git.base.out))
    IN /\ (git.pc = "returned" /\ git.toplevel = "ok" =>
              git.result = Ok_path(str_root))
       /\ (Scanned /\ target # {} =>
              git.result = Ok_path(git.worktrees[Min(target)].path))
       /\ (Scanned /\ target = {} /\ base # {} =>
              /\ git.result.kind = "Ok"
              /\ \E i \in base : git.result.path = git.worktrees[i].path)
       /\ (Scanned /\ target = {} /\ base = {} => git.result.kind = "Other")
       /\ (git.pc = "returned" /\ git.toplevel = "failed"
               /\ (~git.target.ok \/ ~git.base.ok) =>
              git.result.kind = "Other")
       /\ (git.pc = "returned" /\ git.result.kind = "Ok" =>
              \/ git.result.path = str_root /\ git.toplevel = "ok"
              \/ \E i \in DOMAIN git.worktrees :
                    git.result.path = git.worktrees[i].path)

\* the positions of the newlines of a text
Newlines(s) == {i \in DOMAIN s : s[i] = "\n"}

\* line 1 of a text: what stands before its first newline
FirstLine(s) ==
    IF Newlines(s) = {} THEN s ELSE SubSeq(s, 1, Min(Newlines(s)) - 1)

\* lines 3 and later of a text joined by newlines: what stands after its
\* second newline, less the newline that ends the last line
LaterLines(s) ==
    IF Cardinality(Newlines(s)) < 2 THEN <<>>
    ELSE LET second == Min(Newlines(s) \ {Min(Newlines(s))})
             rest == SubSeq(s, second + 1, Len(s))
         IN IF rest # <<>> /\ rest[Len(rest)] = "\n"
            THEN SubSeq(rest, 1, Len(rest) - 1)
            ELSE rest

\* the fixture file of an id exists, is text and has a first line
Parsable(file) == file.state = "text" /\ file.text # <<>>

\* the ids asked for whose file is parsable, in the order asked
RECURSIVE ParsableIds(_, _)
ParsableIds(ids, files) ==
    IF ids = <<>> THEN <<>>
    ELSE (IF Parsable(files[Head(ids)]) THEN <<Head(ids)>> ELSE <<>>)
             \o ParsableIds(Tail(ids), files)

\* a file name spells an unsigned integer
Unsigned(e) ==
    /\ e.kind = "name"
    /\ LET digits == IF e.name # <<>> /\ e.name[1] = "+"
                     THEN SubSeq(e.name, 2, Len(e.name)) ELSE e.name
       IN /\ digits # <<>>
          /\ \A i \in DOMAIN digits : digits[i] \in Digits

\* the number a file name spells
NumberOf(e) ==
    digits_value(SelectSeq(e.name, LAMBDA c : c \in Digits), 0)

\* C21: a detail fetch of the demo adapter returns, for each id asked for
\* whose fixture file exists and has a first line, one ticket with that
\* id, line 1 as title and lines 3 and later joined by newlines as text,
\* and leaves the other ids out; a listing returns the numbers of the file
\* names that spell an unsigned integer
C21_DemoAdapter ==
    /\ (adapter.pc = "returned" /\ adapter.op = "details" =>
           LET kept == ParsableIds(adapter.ids, adapter.files)
           IN /\ Len(adapter.tickets) = Len(kept)
              /\ \A j \in DOMAIN kept :
                    adapter.tickets[j] =
                        DemoTicket(kept[j],
                                   FirstLine(adapter.files[kept[j]].text),
                                   LaterLines(adapter.files[kept[j]].text)))
    /\ (adapter.pc = "returned" /\ adapter.op = "list" =>
           LET named == SelectSeq(adapter.entries, Unsigned)
           IN /\ Len(adapter.numbers) = Len(named)
              /\ \A j \in DOMAIN named :
                    adapter.numbers[j] = NumberOf(named[j]))

\* of two ids fetched one has no fixture file and the other a fixture with
\* a title, a separator line and a text
C21_Witness ==
    /\ adapter.pc = "returned"
    /\ adapter.op = "details"
    /\ Len(adapter.ids) = 2
    /\ Len(adapter.tickets) = 1
    /\ adapter.tickets[1].title # <<>>
    /\ adapter.tickets[1].text # <<>>
    /\ Cardinality(Newlines(adapter.files[adapter.tickets[1].id].text)) >= 2

C26_ExactlyOneOrNotFound ==
    (/\ out.op = LOOKUP
     /\ out.calls = 1
     /\ out.answer.kind = "Ok"
     /\ ~(out.answer.len = 1 /\ Head(out.answer.tickets).id = out.id))
        => /\ out.kind = "Ok"
           /\ out.tickets = <<>>
           /\ Get(ticket_cache, out.id) = <<>>

\* the listed worktrees whose metadata-directory query could not be run
StaleCandidates == {i \in DOMAIN git.worktrees : git.worktrees[i].probe = "stale"}

\* C27: a listed worktree whose metadata-directory query fails is skipped:
\* when a worktree listed after it has the metadata path of the current
\* directory or the common one, the scan of get_repo_root returns a path.
C27_StaleCandidateSkipped ==
    \A i \in StaleCandidates :
        (/\ Scanned
         /\ \E j \in MatchesOf(trim_end(git.target.out))
                    \cup MatchesOf(trim_end(git.base.out)) : j > i)
            => git.result.kind = "Ok"

\* Builder::build executed the configured credential command
CommandExecuted ==
    cred.pc = "returned" /\ cred.cmdline # <<>> /\ cred.process.spawned

\* C28: when no backend kind is resolved, Builder::build yields no tracker
\* and has not executed the credential command; and once build has
\* returned, no credential command is executed any more.
C28_BuildOrder ==
    /\ [](BuildCalled /\ builder.tracker_type = "None" =>
             /\ (Built => ~main.tracker.some)
             /\ ~CommandExecuted)
    /\ [][BuildCalled => cred' = cred]_vars

\* a recorded range lies inside the current first line
InFirstLine(recorded) ==
    recorded.some =>
        /\ analysis.lines # <<>>
        /\ recorded.range.start.line = 0
        /\ recorded.range.end.line = 0
        /\ recorded.range.start.character <= recorded.range.end.character
        /\ recorded.range.end.character <= Len(analysis.lines[1])

\* the current text has a first line and it parses as a header
HeaderParses ==
    analysis.lines # <<>> /\ parse_header(analysis.lines[1]).some

\* C30: after any sequence of update_text calls the recorded type and scope
\* ranges are none or inside the current first line, both are none when
\* the first line is missing or is no header, and lookup finds a commit
\* type only in a text whose first line is a header.
C30_RangesOfCurrentText ==
    analysis.pc = "on" =>
        /\ InFirstLine(analysis.ty)
        /\ InFirstLine(analysis.scope)
        /\ (~HeaderParses => ~analysis.ty.some /\ ~analysis.scope.some)
        /\ analysis.info.kind = "Ty" => HeaderParses

\* the user-info request of the call task t returned from was answered
\* with a login
Answered(t) ==
    /\ username.caller[t].pc = "returned"
    /\ username.caller[t].requested
    /\ username.caller[t].response.sent
    /\ username.caller[t].response.body = "ok"

\* the step sends a user-info request
RequestIssued ==
    \E t \in Tasks :
        username.caller[t].pc # "send" /\ username'.caller[t].pc = "send"

\* C25: with a token, every call of get_username whose user-info request
\* is answered returns a username, the stored one for a call that finds
\* the cell set by another; once set the cell never changes and no
\* user-info request is sent; without a token the owner is returned and no
\* request is made.
C25_UsernameWriteOnce ==
    /\ [](username.pc = "on" =>
             \A t \in Tasks :
                /\ Answered(t) =>
                      /\ username.caller[t].result.kind = "Ok"
                      /\ username.cell = <<username.caller[t].result.name>>
                /\ (username.caller[t].pc = "returned" /\ ~username.token) =>
                      /\ username.caller[t].result = Ok_name(str_owner)
                      /\ ~username.caller[t].requested)
    /\ [][username.pc = "on" /\ username.cell # <<>> =>
             username'.cell = username.cell /\ ~RequestIssued]_vars

\* task t is about to lock the mutex `name`
Waiting(t, name) ==
    handler[t].pc \in (IF name = "analysis" THEN AnalysisLocks ELSE CacheLocks)

\* no set of tasks each of which waits for a mutex held inside the set
NoDeadlock ==
    \A S \in SUBSET Tasks \ {{}} :
        \E t \in S :
            \A name \in {"analysis", "ticket_cache"} :
                ~(Waiting(t, name) /\ lock[name] \in S)

\* C23: no task is suspended in an adapter call while it holds the lock of
\* the ticket cache, so a task about to list the cache never finds the
\* lock held by a task that waits for the network.
C23_NoLockAcrossAdapterCall ==
    lock.pc = "on" =>
        \A t \in Tasks :
            handler[t].pc \in AdapterAwaits => lock.ticket_cache # t

\* a task lists the cache under the lock while another is suspended in its
\* single-id fetch
C23_Witness ==
    /\ lock.pc = "on"
    /\ \E t, u \in Tasks :
          /\ handler[t].pc = "lookup_fetch"
          /\ handler[u].pc = "list"
          /\ lock.ticket_cache = u

\* the lookups of t and u, both returned, missed the cache on the same id
\* and were both answered with a ticket of that id
Raced(t, u) ==
    /\ t # u
    /\ handler[t].pc = "idle" /\ handler[u].pc = "idle"
    /\ handler[t].missed /\ handler[u].missed
    /\ handler[t].id = handler[u].id
    /\ \A x \in {t, u} :
          /\ handler[x].answer.kind = "Ok"
          /\ handler[x].answer.tickets # <<>>
          /\ Head(handler[x].answer.tickets).id = handler[x].id

\* C24: two lookups that both miss on the same id and are both answered
\* with a ticket of it never deadlock, both return the ticket they were
\* answered with, and the cache holds one entry for the id: the ticket of
\* the lookup whose insert was the last write of that entry.
C24_LastWriteWins ==
    lock.pc = "on" =>
        /\ NoDeadlock
        /\ \A t, u \in Tasks :
              Raced(t, u) =>
                 /\ handler[t].reply =
                        [kind |-> "Ok", tickets |-> handler[t].answer.tickets]
                 /\ handler[t].id \in DOMAIN ticket_cache
                 /\ ~(handler[t].last /\ handler[u].last)
                 /\ handler[t].last =>
                        ticket_cache[handler[t].id] = handler[t].reply.tickets[1]

\* two lookups raced for an id with different tickets, and the cache holds
\* the ticket of the second to insert
C24_Witness ==
    /\ lock.pc = "on"
    /\ \E t, u \in Tasks :
          /\ Raced(t, u)
          /\ handler[t].reply.tickets # handler[u].reply.tickets
          /\ handler[u].last
          /\ ticket_cache[handler[u].id] = handler[u].reply.tickets[1]

\* C29: the handlers never deadlock on the analysis lock and the cache
\* lock: a task about to lock the analysis holds neither lock (it never
\* re-acquires the analysis lock, and the cache lock is taken after it,
\* never before), and a task suspended in a call of the client or of the
\* adapter holds no lock.
C29_LockOrder ==
    lock.pc = "on" =>
        /\ NoDeadlock
        /\ \A t \in Tasks :
              /\ Waiting(t, "analysis") =>
                    lock.analysis # t /\ lock.ticket_cache # t
              /\ Waiting(t, "ticket_cache") => lock.ticket_cache # t
              /\ handler[t].pc \in AdapterAwaits \cup ClientAwaits =>
                    lock.analysis # t /\ lock.ticket_cache # t

\* a completion triggered by "#" holds the analysis lock and the cache
\* lock at once while another handler is about to lock the analysis
C29_Witness ==
    /\ lock.pc = "on"
    /\ \E t, u \in Tasks :
          /\ handler[t].pc = "list"
          /\ lock.analysis = t
          /\ lock.ticket_cache = t
          /\ Waiting(u, "analysis")

====
